---- MODULE Spec2Model ----
(***************************************************************************)
(* Verification model of the hotlabel-users scoring engine:                *)
(*   app/services/task_compatibility_service.py  (TaskCompatibilityService)*)
(*   app/services/profiler_service.py            (ProfilerService)         *)
(*   app/api/routes/{sessions,profiles,users,statistics}.py                *)
(*   app/db/repositories/*.py                                              *)
(*                                                                         *)
(* Conventions                                                             *)
(*   - Python's Optional[T] is a tuple: None is <<>>, a value v is <<v>>.  *)
(*   - A database table is a function from ids to Optional rows.           *)
(*   - A factor score is held in tenths (1.0 = 10, 0.2 = 2); a stored rate *)
(*     (success_rate, completion_rate, average_quality_score) in           *)
(*     hundredths (0.8 = 80).                                              *)
(*   - Free text that the code lower-cases or searches (expertise-area     *)
(*     names, task categories, task-type labels) is a sequence of          *)
(*     one-character strings, so that str.lower() and the substring test   *)
(*     are computed and not assumed.                                       *)
(***************************************************************************)
EXTENDS Integers, Sequences, FiniteSets, TLC

VARIABLES
    thresholds,   \* settings.EXPERT_LEVEL_THRESHOLDS (read once at start-up)
    sessions,     \* table user_sessions:   id -> Optional row
    profiles,     \* table user_profiles:   id -> Optional row
    statistics,   \* table user_statistics: <<kind, owner id>> -> Optional row
    areas,        \* table expertise_areas: id -> Optional row
    response,     \* what the last call returned to its caller
    requests,     \* the task-completed requests being served: request -> its
                  \* position in the handler and the rows it has read
    circuit,      \* the CircuitBreaker object of one circuit name
    clock,        \* time.time(), in units of the recovery timeout's resolution
    circuit_call  \* the calls made through the circuit: their position, and
                  \* what the last step did

vars == <<thresholds, sessions, profiles, statistics, areas, response, requests,
          circuit, clock, circuit_call>>

db == <<sessions, profiles, statistics, areas>>

breaker == <<circuit, clock, circuit_call>>

(***************************************************************************)
(* Python values                                                           *)
(***************************************************************************)
None == <<>>

Some(v) == <<v>>

Val(o) == o[1]

\* bool(x) of an Optional[str]: None and "" are falsy
Truthy(o) == o # None /\ Val(o) # ""

\* the same for text held as a sequence of characters
TruthyText(o) == o # None /\ Val(o) # <<>>

\* dict.get(key): None when the key is absent.
DictGet(d, key) == IF key \in DOMAIN d THEN d[key] ELSE None

\* dict.get(key, default)
DictGetDefault(d, key, default) == IF key \in DOMAIN d THEN d[key] ELSE default

Max(a, b) == IF a >= b THEN a ELSE b

(***************************************************************************)
(* Bounds of the model                                                     *)
(***************************************************************************)
\* largest tasks_completed handed to the level calculation
MaxTasksCompleted == 251

\* threshold lists tried besides the default: strictly ascending lists of at
\* most MaxThresholds values out of 0..MaxThresholdValue
MaxThresholds == 3

MaxThresholdValue == 4

\* most task completions recorded for one profile
MaxProfileTasks == 251

\* largest tasks_completed a PATCH gives a session
MaxSessionTasks == 17

\* largest expertise_level a PATCH gives a statistics row
MaxStatsLevel == 8

\* the same where tasks are scored, and the largest complexity of a task
MaxCompatLevel == 1

MaxComplexity == 4

\* longest task list handed to get_compatible_tasks
MaxTasks == 3

\* task-completed requests served at the same time
MaxRequests == 3

\* most task events (completions, attempts) recorded for one user
MaxTaskEvents == 11

\* largest failure_threshold, recovery_timeout and half_open_success_threshold
\* a circuit breaker is built with, largest max_retries of a resilient call,
\* and the last instant of the clock
MaxFailureThreshold == 2

MaxRecoveryTimeout == 2

MaxHalfOpenSuccessThreshold == 2

MaxRetries == 2

MaxClock == 4

\* most parents get_path_to_root is followed through
MaxWalkSteps == 3

\* most task completions of a profile where user resolution is looked at
MaxResolveTasks == 10

(***************************************************************************)
(* Configuration                                                           *)
(***************************************************************************)
EXPERT_LEVEL_THRESHOLDS == <<10, 50, 100, 250>>

StrictlyAscending(thr) == \A i \in 1..(Len(thr) - 1) : thr[i] < thr[i + 1]

ThresholdConfigs ==
    {EXPERT_LEVEL_THRESHOLDS} \cup
    { thr \in UNION { [1..n -> 0..MaxThresholdValue] : n \in 0..MaxThresholds } :
        StrictlyAscending(thr) }

(***************************************************************************)
(* ExpertiseLevelCalculator                                                *)
(***************************************************************************)
RECURSIVE LevelLoop(_, _, _)
\* the enumerate() loop, entered at 1-based position i (level = i - 1)
LevelLoop(tasks_completed, thr, i) ==
    IF i > Len(thr) THEN Len(thr)
    ELSE IF tasks_completed < thr[i] THEN i - 1
    ELSE LevelLoop(tasks_completed, thr, i + 1)

RECURSIVE LevelLoopInclusive(_, _, _)
LevelLoopInclusive(tasks_completed, thr, i) ==
    IF i > Len(thr) THEN Len(thr)
    ELSE IF tasks_completed <= thr[i] THEN i - 1
    ELSE LevelLoopInclusive(tasks_completed, thr, i + 1)

\* mutant of _calculate_expertise_level: the comparison is <= instead of <
Mutant_calculate_expertise_level(tasks_completed, thr) ==
    LevelLoopInclusive(tasks_completed, thr, 1)

\* ProfilerService._calculate_expertise_level, with settings' thresholds passed in
_calculate_expertise_level(tasks_completed, thr) ==
    LevelLoop(tasks_completed, thr, 1)

(***************************************************************************)
(* The empty database                                                      *)
(***************************************************************************)
UserIds == {"u1", "u2"}

AreaIds == {"a1", "a2"}

StatKeys == {"session", "profile"} \X UserIds

EmptyDb ==
    /\ sessions = [u \in UserIds |-> None]
    /\ profiles = [u \in UserIds |-> None]
    /\ statistics = [k \in StatKeys |-> None]
    /\ areas = [a \in AreaIds |-> None]

NoResponse == [op |-> "none"]

RequestIds == 1..MaxRequests

\* a request that has not arrived
Idle == [pc |-> "idle"]

NoRequests == requests = [r \in RequestIds |-> Idle]

\* CircuitBreaker.__init__
CircuitBreaker(failure_threshold, recovery_timeout, half_open_success_threshold) ==
    [failure_threshold |-> failure_threshold,
     recovery_timeout |-> recovery_timeout,
     half_open_success_threshold |-> half_open_success_threshold,
     state |-> "CLOSED",
     failure_count |-> 0,
     last_failure_time |-> 0,
     success_count |-> 0]

\* no call is being made through the circuit
NoCall == [wrapped |-> "idle", http |-> "idle", retry_count |-> 0, max_retries |-> 0,
           event |-> "none"]

\* get_circuit_breaker: a circuit made with the defaults 5, 30.0, 1
NoCircuitTraffic ==
    /\ circuit = CircuitBreaker(5, 30, 1)
    /\ clock = 0
    /\ circuit_call = NoCall

(***************************************************************************)
(* Rows                                                                    *)
(***************************************************************************)
\* models/user_session.py: the column defaults of a new session
NewSession(language) ==
    [language |-> language,
     tasks_completed |-> 0,
     tasks_attempted |-> 0,
     profile_id |-> None]

\* models/user_profile.py: the column defaults of a new profile
NewProfile(primary_language) ==
    [primary_language |-> primary_language,
     tasks_completed |-> 0,
     expertise_level |-> 0,
     expertise_areas |-> <<>>]

\* models/user_statistics.py: the column defaults of a new statistics row
NewStatistics ==
    [total_tasks_completed |-> 0,
     total_tasks_attempted |-> 0,
     completion_rate |-> 0,
     success_rate |-> 0,
     average_quality_score |-> 0,
     task_type_distribution |-> <<>>,
     expertise_level |-> 0]

\* BaseRepository.update with a partial update: the fields given are set
ApplyPatch(row, patch) ==
    [f \in DOMAIN row |-> IF f \in DOMAIN patch THEN patch[f] ELSE row[f]]

\* UserStatisticsRepository.get_by_session_id / get_by_profile_id
get_by_session_id(session_id) == statistics[<<"session", session_id>>]

get_by_profile_id(profile_id) == statistics[<<"profile", profile_id>>]

\* list[index] of Python: negative indexes count from the end, anything
\* outside -len..len-1 raises IndexError
IndexInRange(list, index) == -Len(list) <= index /\ index < Len(list)

ListItem(list, index) ==
    IF index >= 0 THEN list[index + 1] ELSE list[Len(list) + index + 1]

(***************************************************************************)
(* Routes that change the database                                         *)
(***************************************************************************)
Ack(op) == [op |-> op]

\* POST /sessions
create_session(session_id, language) ==
    /\ sessions[session_id] = None
    /\ sessions' = [sessions EXCEPT ![session_id] = Some(NewSession(language))]
    /\ statistics' = [statistics EXCEPT ![<<"session", session_id>>] = Some(NewStatistics)]
    /\ response' = Ack("create_session")
    /\ UNCHANGED <<breaker, requests, thresholds, profiles, areas>>

\* PATCH /sessions/{session_id}
update_session(session_id, session_data) ==
    /\ sessions[session_id] # None
    /\ sessions' = [sessions EXCEPT
                      ![session_id] = Some(ApplyPatch(Val(sessions[session_id]), session_data))]
    /\ response' = Ack("update_session")
    /\ UNCHANGED <<breaker, requests, thresholds, profiles, statistics, areas>>

\* UserSessionRepository.bulk_update: {id: update_data}; every key of
\* update_data is set on the session when the session exists
bulk_update(updates) ==
    /\ sessions' = [u \in UserIds |->
                      IF u \in DOMAIN updates /\ sessions[u] # None
                      THEN Some([f \in DOMAIN Val(sessions[u]) |->
                                   IF f \in DOMAIN updates[u]
                                   THEN updates[u][f]
                                   ELSE Val(sessions[u])[f]])
                      ELSE sessions[u]]
    /\ response' = Ack("bulk_update")
    /\ UNCHANGED <<breaker, requests, thresholds, profiles, statistics, areas>>

\* PATCH /statistics/session/{session_id}
update_session_statistics(session_id, stats_data) ==
    /\ sessions[session_id] # None
    /\ LET stats == IF get_by_session_id(session_id) = None
                    THEN NewStatistics
                    ELSE Val(get_by_session_id(session_id))
       IN  statistics' = [statistics EXCEPT
                            ![<<"session", session_id>>] = Some(ApplyPatch(stats, stats_data))]
    /\ response' = Ack("update_session_statistics")
    /\ UNCHANGED <<breaker, requests, thresholds, sessions, profiles, areas>>

\* POST /users: a profile row and no statistics row
create_user(profile_id) ==
    /\ profiles[profile_id] = None
    /\ profiles' = [profiles EXCEPT ![profile_id] = Some(NewProfile(None))]
    /\ response' = Ack("create_user")
    /\ UNCHANGED <<breaker, requests, thresholds, sessions, statistics, areas>>

\* UserProfileRepository._calculate_expertise_level
profile_calculate_expertise_level(tasks_completed) ==
    LevelLoop(tasks_completed, thresholds, 1)

\* UserProfileRepository.increment_tasks_completed
increment_profile_tasks_completed(profile) ==
    [profile EXCEPT
       !.tasks_completed = @ + 1,
       !.expertise_level = profile_calculate_expertise_level(profile.tasks_completed + 1)]

\* mutant of update_task_metrics: an attempt is counted as a completion
UpdateTaskMetricsCountsAttempts(stats, task_completed, task_type) ==
    [stats EXCEPT
       !.total_tasks_attempted = @ + 1,
       !.total_tasks_completed = @ + 1,
       !.completion_rate = 100]

\* mutant of update_task_metrics: the completion rate is computed before the
\* completed count is increased
UpdateTaskMetricsStaleRate(stats, task_completed, task_type) ==
    [stats EXCEPT
       !.total_tasks_attempted = @ + 1,
       !.total_tasks_completed = @ + (IF task_completed THEN 1 ELSE 0),
       !.completion_rate = (100 * stats.total_tasks_completed)
                               \div (stats.total_tasks_attempted + 1)]

\* UserStatisticsRepository.update_task_metrics for a task that reports neither
\* its time nor its quality: the counts, the completion rate and the histogram
update_task_metrics(stats, task_completed, task_type) ==
    LET attempted == stats.total_tasks_attempted + 1
        completed == stats.total_tasks_completed + (IF task_completed THEN 1 ELSE 0)
        dist == stats.task_type_distribution
    IN  [stats EXCEPT
           !.total_tasks_attempted = attempted,
           !.total_tasks_completed = completed,
           !.completion_rate = (100 * completed) \div attempted,
           !.task_type_distribution =
               IF TruthyText(task_type)
               THEN [k \in DOMAIN dist \cup {Val(task_type)} |->
                       IF k = Val(task_type)
                       THEN (IF k \in DOMAIN dist THEN dist[k] ELSE 0) + 1
                       ELSE dist[k]]
               ELSE dist]

\* POST /profiles/{profile_id}/task-completed: the profile's count and level,
\* and the statistics row when the profile has one
profile_record_task_completion(profile_id, task_type) ==
    /\ profiles[profile_id] # None
    /\ Val(profiles[profile_id]).tasks_completed < MaxProfileTasks
    /\ profiles' = [profiles EXCEPT
                      ![profile_id] = Some(increment_profile_tasks_completed(Val(profiles[profile_id])))]
    /\ statistics' =
           IF get_by_profile_id(profile_id) # None
           THEN [statistics EXCEPT
                   ![<<"profile", profile_id>>] =
                       Some(update_task_metrics(Val(get_by_profile_id(profile_id)), TRUE, task_type))]
           ELSE statistics
    /\ response' = Ack("profile_record_task_completion")
    /\ UNCHANGED <<breaker, requests, thresholds, sessions, areas>>

\* UserSessionRepository.increment_tasks_completed / increment_tasks_attempted
increment_session_tasks_completed(session) == [session EXCEPT !.tasks_completed = @ + 1]

increment_session_tasks_attempted(session) == [session EXCEPT !.tasks_attempted = @ + 1]

\* POST /sessions/{session_id}/task-completed and .../task-attempted: the
\* session's counter, and the statistics row when the session has one
session_record_task(session_id, task_completed, task_type) ==
    /\ sessions[session_id] # None
    /\ sessions' = [sessions EXCEPT
                      ![session_id] =
                          Some(IF task_completed
                               THEN increment_session_tasks_completed(Val(sessions[session_id]))
                               ELSE increment_session_tasks_attempted(Val(sessions[session_id])))]
    /\ statistics' =
           IF get_by_session_id(session_id) # None
           THEN [statistics EXCEPT
                   ![<<"session", session_id>>] =
                       Some(update_task_metrics(Val(get_by_session_id(session_id)),
                                                task_completed, task_type))]
           ELSE statistics
    /\ response' = Ack(IF task_completed THEN "record_task_completion" ELSE "record_task_attempt")
    /\ UNCHANGED <<breaker, requests, thresholds, profiles, areas>>

\* update_task_metrics for a task that reports its quality (lines 88-99): the
\* counts as above, and the running average of the quality, in hundredths
update_task_metrics_scored(stats, task_completed, task_type, task_quality_score) ==
    LET counted == update_task_metrics(stats, task_completed, task_type)
        total_completed == IF counted.total_tasks_completed = 0
                           THEN 1
                           ELSE counted.total_tasks_completed
        current_total_quality == stats.average_quality_score * (total_completed - 1)
    IN  [counted EXCEPT
           !.average_quality_score =
               (current_total_quality + task_quality_score) \div total_completed]

\* POST /sessions/{session_id}/task-completed with a quality_score
session_record_scored_task_completion(session_id, task_type, task_quality_score) ==
    /\ sessions[session_id] # None
    /\ sessions' = [sessions EXCEPT
                      ![session_id] =
                          Some(increment_session_tasks_completed(Val(sessions[session_id])))]
    /\ statistics' =
           IF get_by_session_id(session_id) # None
           THEN [statistics EXCEPT
                   ![<<"session", session_id>>] =
                       Some(update_task_metrics_scored(Val(get_by_session_id(session_id)),
                                                       TRUE, task_type, task_quality_score))]
           ELSE statistics
    /\ response' = Ack("record_task_completion")
    /\ UNCHANGED <<breaker, requests, thresholds, profiles, areas>>

session_record_task_completion(session_id, task_type) ==
    session_record_task(session_id, TRUE, task_type)

session_record_task_attempt(session_id, task_type) ==
    session_record_task(session_id, FALSE, task_type)

(***************************************************************************)
(* Text                                                                    *)
(***************************************************************************)
UpperCase == <<"A", "B", "C", "D", "E", "F", "G", "H", "I", "J", "K", "L", "M",
               "N", "O", "P", "Q", "R", "S", "T", "U", "V", "W", "X", "Y", "Z">>

LowerCase == <<"a", "b", "c", "d", "e", "f", "g", "h", "i", "j", "k", "l", "m",
               "n", "o", "p", "q", "r", "s", "t", "u", "v", "w", "x", "y", "z">>

Digits == {"0", "1", "2", "3", "4", "5", "6", "7", "8", "9"}

LowerChar(ch) ==
    IF \E i \in 1..Len(UpperCase) : UpperCase[i] = ch
    THEN LowerCase[CHOOSE i \in 1..Len(UpperCase) : UpperCase[i] = ch]
    ELSE ch

\* str.lower()
Lower(text) == [i \in 1..Len(text) |-> LowerChar(text[i])]

\* mutant of Contains: the needle has to be the whole text
ContainsWhole(needle, text) == needle = text

\* needle in text
Contains(needle, text) ==
    \E i \in 0..(Len(text) - Len(needle)) : SubSeq(text, i + 1, i + Len(needle)) = needle

RECURSIVE Strip(_)
\* str.strip()
Strip(text) ==
    IF text = <<>> THEN text
    ELSE IF Head(text) = " " THEN Strip(Tail(text))
    ELSE IF text[Len(text)] = " " THEN Strip(SubSeq(text, 1, Len(text) - 1))
    ELSE text

RECURSIVE CollapseHyphens(_)
\* re.sub(r'\-+', '-', slug)
CollapseHyphens(text) ==
    IF Len(text) < 2 THEN text
    ELSE IF text[1] = "-" /\ text[2] = "-" THEN CollapseHyphens(Tail(text))
    ELSE <<text[1]>> \o CollapseHyphens(Tail(text))

IsSlugChar(ch) ==
    \/ \E i \in 1..Len(LowerCase) : LowerCase[i] = ch
    \/ ch \in Digits
    \/ ch = "-"

\* ExpertiseAreaRepository.create_slug
create_slug(name) ==
    LET stripped == Strip(Lower(name))
        hyphened == [i \in 1..Len(stripped) |-> IF stripped[i] = " " THEN "-" ELSE stripped[i]]
    IN  CollapseHyphens(SelectSeq(hyphened, IsSlugChar))

(***************************************************************************)
(* Expertise areas and profiles                                            *)
(***************************************************************************)
\* ExpertiseAreaRepository.get_by_slug / get_by_name: the ids that match
get_by_slug(slug) ==
    { a \in AreaIds : areas[a] # None /\ Val(areas[a]).slug = slug }

get_by_name(name) ==
    { a \in AreaIds : areas[a] # None /\ Lower(Val(areas[a]).name) = Lower(name) }

\* models/expertise_area.py line 18, slug ... unique=True: the ids of the other
\* rows that hold the slug, for which the INSERT or UPDATE fails
SlugTakenByOther(area_id, slug) ==
    { a \in AreaIds \ {area_id} : areas[a] # None /\ Val(areas[a]).slug = slug }

\* POST /expertise-areas: how the request ends
create_expertise_area_outcome(area_id, name, slug, parent_id) ==
    IF TruthyText(slug) /\ get_by_slug(Val(slug)) # {} THEN "ConflictError"
    ELSE IF get_by_name(name) # {} THEN "ConflictError"
    ELSE IF Truthy(parent_id) /\ areas[Val(parent_id)] = None THEN "ResourceNotFound"
    ELSE IF SlugTakenByOther(area_id,
                             IF TruthyText(slug) THEN Val(slug) ELSE create_slug(name)) # {}
    THEN "IntegrityError"
    ELSE "created"

\* POST /expertise-areas; area_id is the id the new row would get. Every
\* rejection leaves the table alone.
create_expertise_area(area_id, name, slug, parent_id) ==
    /\ areas[area_id] = None
    /\ LET outcome == create_expertise_area_outcome(area_id, name, slug, parent_id)
           stored == IF TruthyText(slug) THEN Val(slug) ELSE create_slug(name)
       IN  /\ areas' = IF outcome = "created"
                       THEN [areas EXCEPT
                               ![area_id] = Some([name |-> name,
                                                  slug |-> stored,
                                                  parent_id |-> parent_id])]
                       ELSE areas
           /\ response' = [op |-> "create_expertise_area",
                           area_id |-> area_id,
                           name |-> name,
                           slug |-> stored,
                           outcome |-> outcome]
    /\ UNCHANGED <<breaker, requests, thresholds, sessions, profiles, statistics>>

\* PATCH /expertise-areas/{area_id}: how the request ends. area_data holds the
\* fields that were sent: name and slug as text, parent_id as Optional id.
update_expertise_area_outcome(area_id, area_data) ==
    IF areas[area_id] = None THEN "ResourceNotFound"
    ELSE
    LET area == Val(areas[area_id])
        slug == DictGetDefault(area_data, "slug", <<>>)
        name == DictGetDefault(area_data, "name", <<>>)
        parent_id == DictGet(area_data, "parent_id")
    IN  IF slug # <<>> /\ slug # area.slug /\ (get_by_slug(slug) \ {area_id}) # {}
        THEN "ConflictError"
        ELSE IF name # <<>> /\ name # area.name /\ (get_by_name(name) \ {area_id}) # {}
        THEN "ConflictError"
        ELSE IF Truthy(parent_id) /\ parent_id # area.parent_id /\ Val(parent_id) = area_id
        THEN "BadRequest"
        ELSE IF Truthy(parent_id) /\ parent_id # area.parent_id /\ areas[Val(parent_id)] = None
        THEN "ResourceNotFound"
        ELSE IF "slug" \in DOMAIN area_data /\ SlugTakenByOther(area_id, area_data.slug) # {}
        THEN "IntegrityError"
        ELSE "updated"

\* PATCH /expertise-areas/{area_id}
update_expertise_area(area_id, area_data) ==
    /\ LET outcome == update_expertise_area_outcome(area_id, area_data)
       IN  /\ areas' = IF outcome = "updated"
                       THEN [areas EXCEPT
                               ![area_id] = Some(ApplyPatch(Val(areas[area_id]), area_data))]
                       ELSE areas
           /\ response' = [op |-> "update_expertise_area",
                           area_id |-> area_id,
                           name |-> IF "name" \in DOMAIN area_data /\ areas[area_id] # None
                                    THEN area_data.name
                                    ELSE IF areas[area_id] # None
                                    THEN Val(areas[area_id]).name
                                    ELSE <<>>,
                           slug |-> IF "slug" \in DOMAIN area_data /\ areas[area_id] # None
                                    THEN area_data.slug
                                    ELSE IF areas[area_id] # None
                                    THEN Val(areas[area_id]).slug
                                    ELSE <<>>,
                           outcome |-> outcome]
    /\ UNCHANGED <<breaker, requests, thresholds, sessions, profiles, statistics>>

\* mutant of get_children: no child is ever found
GetChildrenNone(parent_id) == {}

\* ExpertiseAreaRepository.get_children
get_children(parent_id) ==
    { a \in AreaIds : areas[a] # None /\ Val(areas[a]).parent_id = Some(parent_id) }

\* DELETE /expertise-areas/{area_id}; the row's links to profiles go with it
delete_expertise_area(area_id) ==
    /\ LET outcome == IF areas[area_id] = None THEN "ResourceNotFound"
                      ELSE IF get_children(area_id) # {} THEN "BadRequest"
                      ELSE "deleted"
       IN  /\ areas' = IF outcome = "deleted" THEN [areas EXCEPT ![area_id] = None] ELSE areas
           /\ profiles' =
                  IF outcome = "deleted"
                  THEN [p \in UserIds |->
                          IF profiles[p] = None THEN None
                          ELSE Some([Val(profiles[p]) EXCEPT
                                       !.expertise_areas =
                                           SelectSeq(@, LAMBDA a : a # area_id)])]
                  ELSE profiles
           /\ response' = [op |-> "delete_expertise_area",
                           area_id |-> area_id,
                           outcome |-> outcome]
    /\ UNCHANGED <<breaker, requests, thresholds, sessions, statistics>>

\* POST /profiles: the profile, the link from the session, the statistics row
create_profile(profile_id, session_id, primary_language) ==
    /\ sessions[session_id] # None
    /\ profiles[profile_id] = None
    /\ profiles' = [profiles EXCEPT ![profile_id] = Some(NewProfile(primary_language))]
    /\ sessions' = [sessions EXCEPT
                      ![session_id] = Some([Val(sessions[session_id]) EXCEPT
                                              !.profile_id = Some(profile_id)])]
    /\ statistics' = [statistics EXCEPT ![<<"profile", profile_id>>] = Some(NewStatistics)]
    /\ response' = Ack("create_profile")
    /\ UNCHANGED <<breaker, requests, thresholds, areas>>

\* PATCH /profiles/{profile_id} with expertise_areas: every id must exist
update_profile(profile_id, expertise_areas) ==
    /\ profiles[profile_id] # None
    /\ \A i \in 1..Len(expertise_areas) : areas[expertise_areas[i]] # None
    /\ profiles' = [profiles EXCEPT
                      ![profile_id] = Some([Val(profiles[profile_id]) EXCEPT
                                              !.expertise_areas = expertise_areas])]
    /\ response' = Ack("update_profile")
    /\ UNCHANGED <<breaker, requests, thresholds, sessions, statistics, areas>>

(***************************************************************************)
(* TaskCompatibilityService: user facts                                    *)
(***************************************************************************)
\* mutant of _get_user_data: the profile is looked up before the session
GetUserDataProfileFirst(user_id) ==
    IF profiles[user_id] # None
    THEN LET profile == Val(profiles[user_id])
         IN  Some([id |-> user_id,
                   type |-> "profile",
                   language |-> profile.primary_language,
                   tasks_completed |-> profile.tasks_completed,
                   expertise_level |-> profile.expertise_level])
    ELSE IF sessions[user_id] # None
    THEN LET session == Val(sessions[user_id])
             stats == get_by_session_id(user_id)
         IN  Some([id |-> user_id,
                   type |-> "session",
                   language |-> session.language,
                   tasks_completed |-> session.tasks_completed,
                   expertise_level |-> IF stats # None THEN Val(stats).expertise_level ELSE 0,
                   profile_id |-> session.profile_id])
    ELSE None

\* TaskCompatibilityService._get_user_data: the session is tried first; the
\* dict built for a profile has no "profile_id" key
_get_user_data(user_id) ==
    IF sessions[user_id] # None
    THEN LET session == Val(sessions[user_id])
             stats == get_by_session_id(user_id)
         IN  Some([id |-> user_id,
                   type |-> "session",
                   language |-> session.language,
                   tasks_completed |-> session.tasks_completed,
                   expertise_level |-> IF stats # None THEN Val(stats).expertise_level ELSE 0,
                   profile_id |-> session.profile_id])
    ELSE IF profiles[user_id] # None
    THEN LET profile == Val(profiles[user_id])
         IN  Some([id |-> user_id,
                   type |-> "profile",
                   language |-> profile.primary_language,
                   tasks_completed |-> profile.tasks_completed,
                   expertise_level |-> profile.expertise_level])
    ELSE None

\* the statistics row the service reads for the user it resolved
StatisticsOf(user_id, user_data) ==
    IF user_data.type = "session"
    THEN get_by_session_id(user_id)
    ELSE get_by_profile_id(user_id)

(***************************************************************************)
(* CompatibilityScorer (TaskCompatibilityService)                          *)
(***************************************************************************)
\* mutant of _calculate_language_compatibility: an unknown user language
\* counts as a mismatch
LanguageUnknownIsMismatch(user_language, task_language) ==
    IF ~Truthy(task_language) THEN 10
    ELSE IF user_language = task_language THEN 10 ELSE 2

\* TaskCompatibilityService._calculate_language_compatibility
_calculate_language_compatibility(user_language, task_language) ==
    IF ~Truthy(task_language) THEN 10
    ELSE IF ~Truthy(user_language) THEN 5
    ELSE IF user_language = task_language THEN 10 ELSE 2

\* mutant of _calculate_complexity_compatibility: two levels above scores
\* like one level above
ComplexityTwoAboveAsOne(user_expertise, task_complexity) ==
    IF task_complexity = None THEN 10
    ELSE IF Val(task_complexity) = user_expertise THEN 10
    ELSE IF Val(task_complexity) < user_expertise THEN 8
    ELSE IF Val(task_complexity) <= user_expertise + 2 THEN 6
    ELSE 1

\* TaskCompatibilityService._calculate_complexity_compatibility
_calculate_complexity_compatibility(user_expertise, task_complexity) ==
    IF task_complexity = None THEN 10
    ELSE IF Val(task_complexity) = user_expertise THEN 10
    ELSE IF Val(task_complexity) < user_expertise THEN 8
    ELSE IF Val(task_complexity) = user_expertise + 1 THEN 6
    ELSE IF Val(task_complexity) = user_expertise + 2 THEN 3
    ELSE 1

\* lines 225-228: some area of the profile exists and its lower-cased name
\* contains the lower-cased category
AnyAreaMatches(expertise_areas, task_category) ==
    \E i \in 1..Len(expertise_areas) :
        /\ areas[expertise_areas[i]] # None
        /\ Contains(Lower(task_category), Lower(Val(areas[expertise_areas[i]]).name))

\* TaskCompatibilityService._calculate_category_compatibility
_calculate_category_compatibility(user_id, user_data, task_category) ==
    IF ~TruthyText(task_category) THEN 10
    ELSE
    LET linked == Truthy(DictGet(user_data, "profile_id"))
        profile_id == IF user_data.type = "session"
                      THEN Val(user_data.profile_id)
                      ELSE user_data.id
        profile == IF linked THEN profiles[profile_id] ELSE None
        stats == StatisticsOf(user_id, user_data)
    IN  IF profile # None /\ Val(profile).expertise_areas # <<>>
        THEN IF AnyAreaMatches(Val(profile).expertise_areas, Val(task_category))
             THEN 10
             ELSE 7
        ELSE IF /\ stats # None
                /\ Val(stats).task_type_distribution # <<>>
                /\ Val(task_category) \in DOMAIN Val(stats).task_type_distribution
        THEN 9
        ELSE 5

\* lines 125-131, exact: 0.5 * language + 0.3 * complexity + 0.2 * category,
\* in hundredths
WeightedSum(factors) ==
    5 * factors.language + 3 * factors.complexity + 2 * factors.category

\* The sum is evaluated in IEEE-754 doubles, ((0 + l*0.5) + c*0.3) + k*0.2,
\* and is not always the double nearest the exact decimal: this is the sign
\* of its deviation (never more than one unit in the last place), tabulated
\* by evaluating the expression for every triple of factor values.
RoundingOf(factors) ==
    LET t == <<factors.language, factors.complexity, factors.category>>
    IN  IF t \in {<<10, 10, 7>>, <<10, 10, 9>>, <<10, 1, 9>>, <<5, 10, 7>>,
                  <<5, 10, 9>>, <<5, 1, 10>>, <<5, 1, 7>>, <<5, 1, 9>>,
                  <<2, 10, 10>>, <<2, 10, 9>>, <<2, 6, 10>>, <<2, 6, 7>>,
                  <<2, 6, 9>>, <<2, 3, 5>>, <<2, 1, 9>>}
        THEN 1
        ELSE IF t \in {<<10, 6, 10>>, <<10, 6, 5>>, <<5, 3, 5>>, <<2, 8, 5>>,
                       <<2, 3, 7>>}
        THEN -1
        ELSE 0

\* mutant of OverallScore: the weights are 0.4 / 0.4 / 0.2
OverallScoreOtherWeights(factors) ==
    10 * (4 * factors.language + 4 * factors.complexity + 2 * factors.category)

\* overall_score as the double the code holds, in thousandths: the exact sum
\* shifted by the sign of its rounding error, so that two scores compare (<,
\* =, >=) as the doubles do
OverallScore(factors) == 10 * WeightedSum(factors) + RoundingOf(factors)

\* mutant of IsCompatible: the threshold is exclusive
IsCompatibleStrict(overall_score) == overall_score > 500

\* line 134: is_compatible = overall_score >= 0.5
IsCompatible(overall_score) == overall_score >= 500

\* TaskCompatibilityService.calculate_task_compatibility: what it returns
calculate_task_compatibility(user_id, task_complexity, task_language, task_category) ==
    LET found == _get_user_data(user_id) IN
    IF found = None
    THEN [is_compatible |-> FALSE, score |-> 0, factors |-> <<>>]
    ELSE
    LET user_data == Val(found)
        factors ==
            [language |->
                 _calculate_language_compatibility(user_data.language, task_language),
             complexity |->
                 _calculate_complexity_compatibility(user_data.expertise_level, task_complexity),
             category |->
                 _calculate_category_compatibility(user_id, user_data, task_category)]
    IN  [is_compatible |-> IsCompatible(OverallScore(factors)),
         score |-> OverallScore(factors),
         factors |-> factors]

\* one call of the service, with what was asked kept beside the answer
CallCalculateTaskCompatibility(user_id, task_complexity, task_language, task_category) ==
    /\ response' = [op |-> "calculate_task_compatibility",
                    user_id |-> user_id,
                    task_complexity |-> task_complexity,
                    task_language |-> task_language,
                    task_category |-> task_category,
                    result |-> calculate_task_compatibility(
                                   user_id, task_complexity, task_language, task_category)]
    /\ UNCHANGED <<breaker, requests, thresholds, db>>

(***************************************************************************)
(* The other compatibility entry points                                    *)
(*   Their factors are in tenths and their overall_score in hundredths;    *)
(*   evaluated in doubles, every overall_score they can produce is on the  *)
(*   same side of 0.5 as the exact sum.                                    *)
(***************************************************************************)
\* "Allow one level higher than current expertise": profiler_service.py
\* 189-199, users.py 164-170, sessions.py 237-243
ExpertiseScore(user_expertise, task_complexity) ==
    IF task_complexity = None THEN 10
    ELSE IF Val(task_complexity) > user_expertise + 1
    THEN Max(1, 10 - (Val(task_complexity) - (user_expertise + 1)) * 3)
    ELSE 10

\* ProfilerService.calculate_task_compatibility, lines 182-186
profiler_language_score(user_language, task_language) ==
    IF Truthy(task_language)
    THEN IF (IF Truthy(user_language) THEN user_language ELSE Some("en")) = task_language
         THEN 10
         ELSE 3
    ELSE 10

\* ProfilerService.calculate_task_compatibility, lines 202-218
profiler_category_score(user_data, task_category) ==
    IF TruthyText(task_category) /\ Truthy(user_data.profile_id)
    THEN LET profile == profiles[Val(user_data.profile_id)]
         IN  IF profile # None /\ Val(profile).expertise_areas # <<>>
             THEN IF AnyAreaMatches(Val(profile).expertise_areas, Val(task_category))
                  THEN 10
                  ELSE 5
             ELSE 5
    ELSE 10

\* ProfilerService.calculate_task_compatibility
profiler_calculate_task_compatibility(user_id, task_complexity, task_language, task_category) ==
    IF sessions[user_id] = None /\ profiles[user_id] = None
    THEN [error |-> "User not found"]
    ELSE
    LET user_data ==
            IF sessions[user_id] # None
            THEN [id |-> user_id,
                  type |-> "session",
                  language |-> Val(sessions[user_id]).language,
                  expertise_level |->
                      _calculate_expertise_level(
                          Val(sessions[user_id]).tasks_completed, thresholds),
                  profile_id |-> Val(sessions[user_id]).profile_id]
            ELSE [id |-> user_id,
                  type |-> "profile",
                  language |-> Val(profiles[user_id]).primary_language,
                  expertise_level |-> Val(profiles[user_id]).expertise_level,
                  profile_id |-> Some(user_id)]
        scores ==
            [language |-> profiler_language_score(user_data.language, task_language),
             expertise |-> ExpertiseScore(user_data.expertise_level, task_complexity),
             category |-> profiler_category_score(user_data, task_category)]
        overall_score == 4 * scores.language + 4 * scores.expertise + 2 * scores.category
    IN  [error |-> "",
         user_id |-> user_id,
         user_type |-> user_data.type,
         task_compatibility |-> [overall_score |-> overall_score,
                                 is_compatible |-> overall_score >= 50,
                                 factors |-> scores],
         user_data |-> user_data]

CallProfilerCalculateTaskCompatibility(user_id, task_complexity, task_language, task_category) ==
    /\ response' = [op |-> "profiler_calculate_task_compatibility",
                    user_id |-> user_id,
                    task_complexity |-> task_complexity,
                    task_language |-> task_language,
                    task_category |-> task_category,
                    result |-> profiler_calculate_task_compatibility(
                                   user_id, task_complexity, task_language, task_category)]
    /\ UNCHANGED <<breaker, requests, thresholds, db>>

\* users.py line 160 and sessions.py line 232: one expression in both routes
route_language_score(user_language, task_language) ==
    IF ~Truthy(task_language) \/ task_language = user_language THEN 10 ELSE 3

\* GET /users/task-compatibility, lines 124-133: the route's own level table
users_route_expertise_level(tasks_completed) ==
    IF tasks_completed >= 100 THEN 4
    ELSE IF tasks_completed >= 50 THEN 3
    ELSE IF tasks_completed >= 25 THEN 2
    ELSE IF tasks_completed >= 10 THEN 1
    ELSE 0

\* GET /users/task-compatibility
users_get_task_compatibility(user_id, task_complexity, task_language) ==
    IF sessions[user_id] = None /\ profiles[user_id] = None
    THEN [status |-> 404]
    ELSE
    LET is_session == sessions[user_id] # None
        user_language == IF is_session
                         THEN Val(sessions[user_id]).language
                         ELSE Val(profiles[user_id]).primary_language
        user_expertise_level ==
            IF is_session
            THEN users_route_expertise_level(Val(sessions[user_id]).tasks_completed)
            ELSE Val(profiles[user_id]).expertise_level
        factors == [language |-> route_language_score(user_language, task_language),
                    expertise |-> ExpertiseScore(user_expertise_level, task_complexity),
                    task_type |-> 10]
        overall_score == 4 * factors.language + 4 * factors.expertise + 2 * factors.task_type
    IN  [status |-> 200,
         user_id |-> user_id,
         user_type |-> IF is_session THEN "session" ELSE "profile",
         overall_score |-> overall_score,
         factors |-> factors,
         is_compatible |-> overall_score >= 50]

CallUsersGetTaskCompatibility(user_id, task_complexity, task_language) ==
    /\ response' = [op |-> "users_get_task_compatibility",
                    user_id |-> user_id,
                    task_complexity |-> task_complexity,
                    task_language |-> task_language,
                    result |-> users_get_task_compatibility(
                                   user_id, task_complexity, task_language)]
    /\ UNCHANGED <<breaker, requests, thresholds, db>>

\* GET /sessions/{session_id}/task-compatibility
sessions_get_task_compatibility(session_id, task_complexity, task_language) ==
    IF sessions[session_id] = None
    THEN [status |-> 404]
    ELSE
    LET session == Val(sessions[session_id])
        stats == get_by_session_id(session_id)
        expertise_level == IF stats # None THEN Val(stats).expertise_level ELSE 0
        factors == [language |-> route_language_score(session.language, task_language),
                    expertise |-> ExpertiseScore(expertise_level, task_complexity)]
        overall_score == 4 * factors.language + 6 * factors.expertise
    IN  [status |-> 200,
         overall_score |-> overall_score,
         factors |-> factors,
         is_compatible |-> overall_score >= 50]

CallSessionsGetTaskCompatibility(session_id, task_complexity, task_language) ==
    /\ response' = [op |-> "sessions_get_task_compatibility",
                    user_id |-> session_id,
                    task_complexity |-> task_complexity,
                    task_language |-> task_language,
                    result |-> sessions_get_task_compatibility(
                                   session_id, task_complexity, task_language)]
    /\ UNCHANGED <<breaker, requests, thresholds, db>>

(***************************************************************************)
(* StaircaseAdvancementPolicy                                              *)
(***************************************************************************)
\* mutant of ConfidenceOf: the completion-rate bonus is 0.2 instead of 0.3
ConfidenceSmallCompletionBonus(stats) ==
    (IF stats.success_rate >= 80 THEN 5 ELSE 0)
    + (IF stats.completion_rate >= 90 THEN 2 ELSE 0)
    + (IF stats.average_quality_score >= 80 THEN 2 ELSE 0)

\* recommend_next_task_level, lines 271-282: confidence, in tenths
ConfidenceOf(stats) ==
    (IF stats.success_rate >= 80 THEN 5 ELSE 0)
    + (IF stats.completion_rate >= 90 THEN 3 ELSE 0)
    + (IF stats.average_quality_score >= 80 THEN 2 ELSE 0)

\* mutant of ChallengeInterval: the floor of the interval is 2 instead of 3
ChallengeIntervalFloorTwo(current_level) == Max(2, 10 - current_level)

\* recommend_next_task_level, line 296 (and get_compatible_tasks, line 65)
ChallengeInterval(current_level) == Max(3, 10 - current_level)

\* mutant of RecommendedLevel: the challenge probe skips a level
RecommendedLevelProbeSkips(current_level, should_advance, is_challenge_task) ==
    IF is_challenge_task THEN current_level + 2
    ELSE IF should_advance THEN current_level + 1
    ELSE current_level

\* recommend_next_task_level, lines 291 and 299-300
RecommendedLevel(current_level, should_advance, is_challenge_task) ==
    IF is_challenge_task THEN current_level + 1
    ELSE IF should_advance THEN current_level + 1
    ELSE current_level

\* TaskCompatibilityService.recommend_next_task_level: what the caller gets
recommend_next_task_level(user_id) ==
    LET found == _get_user_data(user_id) IN
    IF found = None
    THEN [op |-> "recommend_next_task_level", user_id |-> user_id,
          outcome |-> "returned", error |-> "User not found"]
    ELSE
    LET user_data == Val(found)
        stats == StatisticsOf(user_id, user_data)
        current_level == user_data.expertise_level
    IN  IF stats = None /\ ~IndexInRange(thresholds, current_level)
        THEN [op |-> "recommend_next_task_level", user_id |-> user_id,
              outcome |-> "IndexError"]
        ELSE
        LET confidence == IF stats # None THEN ConfidenceOf(Val(stats)) ELSE 0
            should_advance ==
                IF stats # None
                THEN confidence >= 7
                ELSE user_data.tasks_completed >= ListItem(thresholds, current_level)
            is_challenge_task ==
                /\ ~should_advance
                /\ user_data.tasks_completed > 0
                /\ user_data.tasks_completed % ChallengeInterval(current_level) = 0
        IN  [op |-> "recommend_next_task_level", user_id |-> user_id,
             outcome |-> "returned", error |-> "",
             current_level |-> current_level,
             recommended_level |->
                 RecommendedLevel(current_level, should_advance, is_challenge_task),
             should_advance |-> should_advance,
             is_challenge_task |-> is_challenge_task,
             confidence |-> confidence,
             tasks_completed |-> user_data.tasks_completed]

CallRecommendNextTaskLevel(user_id) ==
    /\ response' = recommend_next_task_level(user_id)
    /\ UNCHANGED <<breaker, requests, thresholds, db>>

(***************************************************************************)
(* TaskCompatibilityService.get_compatible_tasks                           *)
(*   A task is a dict: a record whose present keys hold Optional values    *)
(*   (and "id" a string).                                                  *)
(***************************************************************************)
\* lines 42-49: the score of one task of the list
TaskCompatibility(user_id, task) ==
    calculate_task_compatibility(user_id,
                                 DictGet(task, "complexity"),
                                 DictGet(task, "language"),
                                 DictGet(task, "category"))

\* lines 53-57: {**task, "compatibility_score": ..., "compatibility_factors": ...}
ScoredTask(task, compatibility) ==
    [compatibility_score |-> compatibility.score,
     compatibility_factors |-> compatibility.factors] @@ task

\* lines 40-57: the compatible tasks, scored, in input order
RECURSIVE CompatibleTasks(_, _)
CompatibleTasks(user_id, available_tasks) ==
    IF available_tasks = <<>>
    THEN <<>>
    ELSE LET task == Head(available_tasks)
             compatibility == TaskCompatibility(user_id, task)
         IN  (IF compatibility.is_compatible
              THEN <<ScoredTask(task, compatibility)>>
              ELSE <<>>)
             \o CompatibleTasks(user_id, Tail(available_tasks))

\* mutant of InsertByScore: an entry goes in front of the entries of equal score
InsertByScoreBeforeTies(sorted, x) ==
    LET ahead == Cardinality({ i \in 1..Len(sorted) :
                     sorted[i].compatibility_score > x.compatibility_score })
    IN  SubSeq(sorted, 1, ahead) \o <<x>> \o SubSeq(sorted, ahead + 1, Len(sorted))

\* one step of list.sort(key=score, reverse=True): x goes behind every entry
\* of `sorted` whose score is not lower, as the stable sort leaves it
InsertByScore(sorted, x) ==
    LET ahead == Cardinality({ i \in 1..Len(sorted) :
                     sorted[i].compatibility_score >= x.compatibility_score })
    IN  SubSeq(sorted, 1, ahead) \o <<x>> \o SubSeq(sorted, ahead + 1, Len(sorted))

\* line 60: compatible_tasks.sort(key=lambda x: x["compatibility_score"], reverse=True)
RECURSIVE SortByScore(_)
SortByScore(tasks) ==
    IF tasks = <<>>
    THEN <<>>
    ELSE InsertByScore(SortByScore(SubSeq(tasks, 1, Len(tasks) - 1)), tasks[Len(tasks)])

\* mutant of ChallengeTasks: the task's language is not looked at
ChallengeTasksAnyLanguage(available_tasks, user_data) ==
    { i \in 1..Len(available_tasks) :
        DictGetDefault(available_tasks[i], "complexity", Some(0))
            = Some(user_data.expertise_level + 1) }

\* lines 69-73: where the tasks one level above the user, in the user's
\* language, are in the input list
ChallengeTasks(available_tasks, user_data) ==
    { i \in 1..Len(available_tasks) :
        /\ DictGetDefault(available_tasks[i], "complexity", Some(0))
               = Some(user_data.expertise_level + 1)
        /\ DictGet(available_tasks[i], "language") = user_data.language }

\* what get_compatible_tasks returns, and the caller's list as the call leaves it
get_compatible_tasks(user_id, available_tasks) ==
    LET found == _get_user_data(user_id) IN
    IF found = None
    THEN [returned |-> <<>>, available_tasks |-> available_tasks]
    ELSE
    LET user_data == Val(found)
        compatible_tasks == SortByScore(CompatibleTasks(user_id, available_tasks))
        challenging_interval == ChallengeInterval(user_data.expertise_level)
        challenge_tasks == ChallengeTasks(available_tasks, user_data)
    IN  IF /\ compatible_tasks # <<>>
           /\ user_data.tasks_completed > 0
           /\ user_data.tasks_completed % challenging_interval = 0
           /\ challenge_tasks # {}
        THEN LET first == CHOOSE i \in challenge_tasks : \A j \in challenge_tasks : i <= j
                 challenge_task == [is_challenge |-> TRUE] @@ available_tasks[first]
             IN  [returned |-> <<challenge_task>> \o compatible_tasks,
                  available_tasks |-> [available_tasks EXCEPT ![first] = challenge_task]]
        ELSE [returned |-> compatible_tasks, available_tasks |-> available_tasks]

\* one call of the service, with what was asked kept beside the answer
CallGetCompatibleTasks(user_id, available_tasks) ==
    /\ LET call == get_compatible_tasks(user_id, available_tasks)
       IN  response' = [op |-> "get_compatible_tasks",
                        user_id |-> user_id,
                        available_tasks |-> available_tasks,
                        result |-> call.returned,
                        available_tasks_after |-> call.available_tasks]
    /\ UNCHANGED <<breaker, requests, thresholds, db>>

(***************************************************************************)
(* SpecLevel: the level calculation applied under every configuration      *)
(***************************************************************************)
InitLevel ==
    /\ thresholds \in ThresholdConfigs
    /\ EmptyDb
    /\ response = NoResponse
    /\ NoRequests
    /\ NoCircuitTraffic

CallCalculateExpertiseLevel(tasks_completed) ==
    /\ response' = [op |-> "_calculate_expertise_level",
                    tasks_completed |-> tasks_completed,
                    level |-> _calculate_expertise_level(tasks_completed, thresholds)]
    /\ UNCHANGED <<breaker, requests, thresholds, db>>

NextLevel == \E t \in 0..MaxTasksCompleted : CallCalculateExpertiseLevel(t)

SpecLevel == InitLevel /\ [][NextLevel]_vars

\* C1: for a strictly ascending threshold list and tasks_completed >= 0 the
\* level returned is the smallest (0-based) index i with
\* tasks_completed < thresholds[i], or len(thresholds) when there is none; the
\* level is non-decreasing in tasks_completed, level(thresholds[i] - 1) = i and
\* level(thresholds[i]) = i + 1.
C1_LevelIsSmallestIndex ==
    LET n == Len(thresholds)
        level(t) == _calculate_expertise_level(t, thresholds)
        Below(t) == { i \in 1..n : t < thresholds[i] }
    IN  /\ response.op = "_calculate_expertise_level" =>
              LET t == response.tasks_completed
                  lv == response.level
              IN  /\ lv \in 0..n
                  /\ Below(t) = {} => lv = n
                  /\ Below(t) # {} =>
                        /\ lv + 1 \in Below(t)
                        /\ \A i \in Below(t) : lv + 1 <= i
        /\ \A t \in 0..(MaxTasksCompleted - 1) : level(t) <= level(t + 1)
        /\ \A i \in 1..n :
              /\ thresholds[i] - 1 >= 0 => level(thresholds[i] - 1) = i - 1
              /\ level(thresholds[i]) = i

\* the spec's example: 55 completed tasks under [10, 50, 100, 250] is level 2,
\* and a count beyond every threshold has been evaluated too
C1_Witness ==
    /\ thresholds = EXPERT_LEVEL_THRESHOLDS
    /\ response.op = "_calculate_expertise_level"
    /\ response.tasks_completed = 55
    /\ response.level = 2

(***************************************************************************)
(* SpecStaircase: a session, its statistics row and the staircase policy   *)
(***************************************************************************)
InitDefault ==
    /\ thresholds = EXPERT_LEVEL_THRESHOLDS
    /\ EmptyDb
    /\ response = NoResponse
    /\ NoRequests
    /\ NoCircuitTraffic

\* the rates a PATCH stores: the default and both sides of 0.8 and of 0.9
RateValues == {0, 79, 80, 89, 90}

StaircaseStatsPatches ==
    { [success_rate |-> r] : r \in RateValues }
    \cup { [completion_rate |-> r] : r \in RateValues }
    \cup { [average_quality_score |-> r] : r \in RateValues }
    \cup { [expertise_level |-> lv] : lv \in 0..MaxStatsLevel }

NextStaircase ==
    \/ create_session("u1", Some("en"))
    \/ \E t \in 0..MaxSessionTasks : update_session("u1", [tasks_completed |-> t])
    \/ \E stats_data \in StaircaseStatsPatches : update_session_statistics("u1", stats_data)
    \/ \E u \in UserIds : CallRecommendNextTaskLevel(u)

SpecStaircase == InitDefault /\ [][NextStaircase]_vars

\* the response is a staircase decision for a user that was found
Decided == response.op = "recommend_next_task_level"
           /\ response.outcome = "returned"
           /\ response.error = ""

\* the facts and the statistics row the decision was taken from (the database
\* has not changed since: every route that changes it replaces the response)
DecidedFacts == Val(_get_user_data(response.user_id))

DecidedStats == StatisticsOf(response.user_id, DecidedFacts)

\* C6: with a statistics row, confidence is the sum of +0.5 (success_rate >=
\* 0.8), +0.3 (completion_rate >= 0.9) and +0.2 (average_quality_score >= 0.8),
\* at most 1.0; should_advance is confidence >= 0.7, that is success_rate >= 0.8
\* together with completion_rate >= 0.9 or average_quality_score >= 0.8.
C6_ConfidenceIsBonusSum ==
    (Decided /\ DecidedStats # None) =>
        LET stats == Val(DecidedStats)
            s == stats.success_rate >= 80
            c == stats.completion_rate >= 90
            q == stats.average_quality_score >= 80
        IN  /\ response.confidence \in 0..10
            /\ \E bs \in {0, 5}, bc \in {0, 3}, bq \in {0, 2} :
                  /\ (bs = 5) = s
                  /\ (bc = 3) = c
                  /\ (bq = 2) = q
                  /\ response.confidence = bs + bc + bq
            /\ response.should_advance = (response.confidence >= 7)
            /\ response.should_advance = (s /\ (c \/ q))

\* the spec's example: all three bonuses earned, confidence 1.0, advance
C6_Witness ==
    /\ Decided
    /\ DecidedStats # None
    /\ Val(DecidedStats).success_rate >= 80
    /\ Val(DecidedStats).completion_rate >= 90
    /\ Val(DecidedStats).average_quality_score >= 80
    /\ response.confidence = 10
    /\ response.should_advance

\* C7: is_challenge_task is true exactly when should_advance is false,
\* tasks_completed > 0 and tasks_completed mod max(3, 10 - current_level) = 0.
C7_ChallengeExactlyOnInterval ==
    Decided =>
        LET level == DecidedFacts.expertise_level
            done == DecidedFacts.tasks_completed
            interval == IF 10 - level > 3 THEN 10 - level ELSE 3
        IN  response.is_challenge_task =
               (/\ ~response.should_advance
                /\ done > 0
                /\ done % interval = 0)

\* the spec's example: level 2, 16 tasks completed, not advancing
C7_Witness ==
    /\ Decided
    /\ response.current_level = 2
    /\ response.tasks_completed = 16
    /\ ~response.should_advance
    /\ response.is_challenge_task

\* the other half of the example: 17 tasks completed is no challenge
C7_WitnessNoChallenge ==
    /\ Decided
    /\ response.current_level = 2
    /\ response.tasks_completed = 17
    /\ ~response.is_challenge_task

\* C8: should_advance and is_challenge_task are never both true;
\* recommended_level is current_level + 1 when either is true and
\* current_level otherwise.
C8_RecommendedLevelOneStep ==
    Decided =>
        /\ ~(response.should_advance /\ response.is_challenge_task)
        /\ (response.should_advance \/ response.is_challenge_task)
              => response.recommended_level = response.current_level + 1
        /\ ~(response.should_advance \/ response.is_challenge_task)
              => response.recommended_level = response.current_level
        /\ response.recommended_level \in
              {response.current_level, response.current_level + 1}

\* a challenge probe: not advancing, yet one level up is recommended
C8_Witness ==
    /\ Decided
    /\ response.is_challenge_task
    /\ ~response.should_advance
    /\ response.recommended_level = response.current_level + 1

(***************************************************************************)
(* SpecCompat: a session, the profile it opts into, one expertise area,    *)
(* and every compatibility entry point                                     *)
(***************************************************************************)
TaskComplexities == {None} \cup { Some(c) : c \in 0..MaxComplexity }

TaskLanguages == {None, Some("en"), Some("fr")}

\* no category, "L" (part of the area name "ML" once both are lower-cased)
\* and "x" (in no area name; a task-type label of the histogram)
TaskCategories == {None, Some(<<"L">>), Some(<<"x">>)}

CompatStatsPatches ==
    { [expertise_level |-> lv] : lv \in 0..MaxCompatLevel }
    \cup { [task_type_distribution |-> d] : d \in {<<>>, <<"x">> :> 1} }

NextCompat ==
    \/ \E language \in {None, Some("en")} : create_session("u1", language)
    \/ \E stats_data \in CompatStatsPatches : update_session_statistics("u1", stats_data)
    \/ create_expertise_area("a1", <<"M", "L">>, None, None)
    \/ create_profile("u2", "u1", Some("en"))
    \/ \E expertise_areas \in {<<>>, <<"a1">>} : update_profile("u2", expertise_areas)
    \/ \E u \in UserIds, c \in TaskComplexities, l \in TaskLanguages, k \in TaskCategories :
          CallCalculateTaskCompatibility(u, c, l, k)
    \/ \E u \in UserIds, c \in TaskComplexities, l \in TaskLanguages, k \in TaskCategories :
          CallProfilerCalculateTaskCompatibility(u, c, l, k)
    \/ \E u \in UserIds, c \in TaskComplexities, l \in TaskLanguages :
          CallUsersGetTaskCompatibility(u, c, l)
    \/ \E u \in UserIds, c \in TaskComplexities, l \in TaskLanguages :
          CallSessionsGetTaskCompatibility(u, c, l)

SpecCompat == InitDefault /\ [][NextCompat]_vars

\* the response is a score of TaskCompatibilityService for a user that was found
Scored == response.op = "calculate_task_compatibility"
          /\ _get_user_data(response.user_id) # None

\* C2: the complexity factor is the step function of task complexity c against
\* expertise level L: 1.0 for c = L, 0.8 for c < L, 0.6 for c = L + 1, 0.3 for
\* c = L + 2, 0.1 for c > L + 2, and 1.0 for a task without complexity.
C2_ComplexityStepFunction ==
    Scored =>
        LET L == DecidedFacts.expertise_level
            c == response.task_complexity
            f == response.result.factors.complexity
        IN  /\ c = None => f = 10
            /\ c # None =>
                  /\ Val(c) = L => f = 10
                  /\ Val(c) < L => f = 8
                  /\ Val(c) = L + 1 => f = 6
                  /\ Val(c) = L + 2 => f = 3
                  /\ Val(c) > L + 2 => f = 1

\* a task two levels above a user of level 1
C2_Witness ==
    /\ Scored
    /\ DecidedFacts.expertise_level = 1
    /\ response.task_complexity = Some(3)
    /\ response.result.factors.complexity = 3

\* C3: is_compatible is true exactly when the 0.5 / 0.3 / 0.2 weighted sum of
\* the language, complexity and category factors is >= 0.5 (exactly 0.5 is
\* compatible), and the score lies in [0, 1].
C3_CompatibleFromHalf ==
    Scored =>
        LET f == response.result.factors
            hundredths == 5 * f.language + 3 * f.complexity + 2 * f.category
        IN  /\ response.result.is_compatible = (hundredths >= 50)
            /\ response.result.score >= 0
            /\ response.result.score <= 1000
            /\ response.result.score \in (10 * hundredths - 1)..(10 * hundredths + 1)

\* a weighted sum of exactly 0.5: language mismatch (0.2), complexity at the
\* user's level (1.0), category unknown to the user (0.5)
C3_Witness ==
    /\ Scored
    /\ response.result.factors = [language |-> 2, complexity |-> 10, category |-> 5]
    /\ response.result.score = 500
    /\ response.result.is_compatible

\* the expertise areas of the user: of the profile itself, or of the profile a
\* session is linked to
ExpertiseAreasOf(user_id) ==
    IF sessions[user_id] # None
    THEN LET profile_id == Val(sessions[user_id]).profile_id
         IN  IF profile_id # None /\ profiles[Val(profile_id)] # None
             THEN Val(profiles[Val(profile_id)]).expertise_areas
             ELSE <<>>
    ELSE Val(profiles[user_id]).expertise_areas

\* C4: for a user with expertise areas (a profile looked up by its own id, or a
\* session linked to a profile) the category factor is 1.0 when some area name
\* contains the category case-insensitively and 0.7 when none does; for a user
\* without expertise areas it is 0.9 when the statistics' task-type histogram
\* contains the label and 0.5 otherwise; without a task category it is 1.0.
C4_CategoryFactor ==
    Scored =>
        LET k == response.task_category
            f == response.result.factors.category
            mine == ExpertiseAreasOf(response.user_id)
        IN  /\ ~TruthyText(k) => f = 10
            /\ (TruthyText(k) /\ mine # <<>>) =>
                  f = IF \E i \in 1..Len(mine) :
                            /\ areas[mine[i]] # None
                            /\ Contains(Lower(Val(k)), Lower(Val(areas[mine[i]]).name))
                      THEN 10
                      ELSE 7
            /\ (TruthyText(k) /\ mine = <<>>) =>
                  f = IF /\ DecidedStats # None
                         /\ Val(k) \in DOMAIN Val(DecidedStats).task_type_distribution
                      THEN 9
                      ELSE 5

\* the user's language as stored: the session's, else the profile's
LanguageOf(user_id) ==
    IF sessions[user_id] # None
    THEN Val(sessions[user_id]).language
    ELSE Val(profiles[user_id]).primary_language

\* the language factor a compatibility entry point answered with, if it answered
LanguageFactors ==
    IF response.op = "calculate_task_compatibility"
    THEN IF _get_user_data(response.user_id) # None
         THEN {response.result.factors.language} ELSE {}
    ELSE IF response.op = "profiler_calculate_task_compatibility"
    THEN IF response.result.error = ""
         THEN {response.result.task_compatibility.factors.language} ELSE {}
    ELSE IF response.op \in {"users_get_task_compatibility", "sessions_get_task_compatibility"}
    THEN IF response.result.status = 200
         THEN {response.result.factors.language} ELSE {}
    ELSE {}

\* C5: every compatibility entry point applies one language policy: 1.0 when
\* the task has no language, 0.5 when the user's language is unknown, 1.0 on an
\* exact match and one single value on a mismatch.
C5_OneLanguagePolicy ==
    \A f \in LanguageFactors :
        LET user_language == LanguageOf(response.user_id)
            task_language == response.task_language
            mismatch == _calculate_language_compatibility(Some("en"), Some("fr"))
        IN  f = IF ~Truthy(task_language) THEN 10
                ELSE IF ~Truthy(user_language) THEN 5
                ELSE IF user_language = task_language THEN 10
                ELSE mismatch

(***************************************************************************)
(* SpecRank: one session, its level and its task count, and task lists     *)
(* ranked for it                                                           *)
(***************************************************************************)
\* t1 and t3 score alike for a user of level 0, t2 and t3 for a user of level
\* 1; t4 is compatible from level 1 on and for a user without language
TaskPool ==
    { [id |-> "t1", complexity |-> Some(0), language |-> Some("en")],
      [id |-> "t2", complexity |-> Some(1), language |-> Some("en")],
      [id |-> "t3", language |-> Some("en")],
      [id |-> "t4", complexity |-> Some(1), language |-> Some("fr")] }

\* the lists of at most MaxTasks different tasks
TaskLists ==
    UNION { { s \in [1..n -> TaskPool] : \A i, j \in 1..n : i # j => s[i] # s[j] }
            : n \in 0..MaxTasks }

\* task counts on and off the challenge interval of levels 0 and 1
RankTasksCompleted == {0, 9, 10}

NextRank ==
    \/ \E language \in {None, Some("en")} : create_session("u1", language)
    \/ \E n \in RankTasksCompleted : update_session("u1", [tasks_completed |-> n])
    \/ \E lv \in 0..MaxCompatLevel :
          update_session_statistics("u1", [expertise_level |-> lv])
    \/ \E u \in UserIds, available_tasks \in TaskLists :
          CallGetCompatibleTasks(u, available_tasks)

SpecRank == InitDefault /\ [][NextRank]_vars

\* the output without the challenge entry put in front of it
Ranked ==
    IF response.result # <<>> /\ "compatibility_score" \notin DOMAIN response.result[1]
    THEN Tail(response.result)
    ELSE response.result

\* where the task with this id is in the input list
InputIndex(id) == CHOOSE i \in 1..Len(response.available_tasks) :
                      response.available_tasks[i].id = id

\* C10: the ranked part of get_compatible_tasks' output (all but an injected
\* challenge entry) holds exactly the input tasks with is_compatible = true,
\* each with its score, in descending compatibility_score order, tasks of
\* equal score in their input order, and as many as there are.
C10_RankedCompatibleStable ==
    response.op = "get_compatible_tasks" =>
        LET input == response.available_tasks
            compatible == { i \in 1..Len(input) :
                              TaskCompatibility(response.user_id, input[i]).is_compatible }
        IN  /\ Len(Ranked) = Cardinality(compatible)
            /\ { Ranked[i].id : i \in 1..Len(Ranked) } = { input[i].id : i \in compatible }
            /\ \A i \in 1..Len(Ranked) :
                  /\ Ranked[i].compatibility_score
                        = TaskCompatibility(response.user_id, input[InputIndex(Ranked[i].id)]).score
                  /\ \A key \in DOMAIN input[InputIndex(Ranked[i].id)] :
                        Ranked[i][key] = input[InputIndex(Ranked[i].id)][key]
            /\ \A i, j \in 1..Len(Ranked) :
                  i < j =>
                     /\ Ranked[i].compatibility_score >= Ranked[j].compatibility_score
                     /\ Ranked[i].compatibility_score = Ranked[j].compatibility_score
                           => InputIndex(Ranked[i].id) < InputIndex(Ranked[j].id)

\* three compatible tasks come back reordered: the two of equal score, in
\* their input order, ahead of the lower-scoring task that was first in the input
C10_Witness ==
    /\ response.op = "get_compatible_tasks"
    /\ Len(response.available_tasks) = 3
    /\ Len(Ranked) = 3
    /\ InputIndex(Ranked[3].id) = 1
    /\ Ranked[1].compatibility_score = Ranked[2].compatibility_score
    /\ Ranked[2].compatibility_score > Ranked[3].compatibility_score

\* the response is a ranking for a user that was found
RankedFor == response.op = "get_compatible_tasks"
             /\ _get_user_data(response.user_id) # None

\* tasks_completed is positive and on the challenge interval of the level
OnChallengeInterval(tasks_completed, current_level) ==
    /\ tasks_completed > 0
    /\ tasks_completed % Max(3, 10 - current_level) = 0

\* where the input list holds a task one level above the user, in the user's language
InputChallengeCandidates ==
    LET facts == Val(_get_user_data(response.user_id))
    IN  { i \in 1..Len(response.available_tasks) :
            /\ "complexity" \in DOMAIN response.available_tasks[i]
            /\ response.available_tasks[i].complexity = Some(facts.expertise_level + 1)
            /\ DictGet(response.available_tasks[i], "language") = facts.language }

\* C11: whenever the challenge condition holds for the user and the unfiltered
\* input list holds a task with complexity = current_level + 1 in the user's
\* language, the first such task, marked is_challenge, is the first element of
\* the output of get_compatible_tasks, whatever the compatibility filter kept.
C11_ChallengeTaskLeads ==
    RankedFor =>
        LET facts == Val(_get_user_data(response.user_id))
            candidates == InputChallengeCandidates
        IN  (OnChallengeInterval(facts.tasks_completed, facts.expertise_level)
               /\ candidates # {})
            => LET first == CHOOSE i \in candidates : \A j \in candidates : i <= j
               IN  /\ response.result # <<>>
                   /\ response.result[1]
                         = [is_challenge |-> TRUE] @@ response.available_tasks[first]

\* a challenge leads the output although a task of the same complexity in
\* another language comes before it in the input and a better-scoring task
\* is ranked
C11_Witness ==
    /\ RankedFor
    /\ OnChallengeInterval(Val(_get_user_data(response.user_id)).tasks_completed,
                           Val(_get_user_data(response.user_id)).expertise_level)
    /\ InputChallengeCandidates # {}
    /\ 1 \notin InputChallengeCandidates
    /\ DictGet(response.available_tasks[1], "complexity")
          = Some(Val(_get_user_data(response.user_id)).expertise_level + 1)
    /\ Len(response.result) = 3
    /\ "is_challenge" \in DOMAIN response.result[1]

\* C12: get_compatible_tasks, calculate_task_compatibility and
\* recommend_next_task_level have no side effect: a call leaves the stored
\* sessions, profiles and statistics as they were, and the caller's task list
\* and each task record of it as they were handed in.
C12_ScoringHasNoSideEffect ==
    [][response'.op \in {"get_compatible_tasks", "calculate_task_compatibility",
                         "recommend_next_task_level"}
       => /\ db' = db
          /\ response'.op = "get_compatible_tasks"
                => response'.available_tasks_after = response'.available_tasks]_vars

\* C27: no input task is twice in the list get_compatible_tasks returns: the
\* task put in front as the challenge is not among the ranked entries too.
C27_NoTaskTwice ==
    response.op = "get_compatible_tasks"
    => \A i, j \in 1..Len(response.result) :
          i # j => response.result[i].id # response.result[j].id

(***************************************************************************)
(* SpecPolicy: one session whose statistics are set to either side of the  *)
(* advancement thresholds, the ranker and the staircase decision           *)
(***************************************************************************)
PolicyStatsPatches ==
    { [success_rate |-> r] : r \in {0, 80} }
    \cup { [completion_rate |-> r] : r \in {0, 90} }
    \cup { [expertise_level |-> lv] : lv \in 0..MaxCompatLevel }

PolicyTaskLists ==
    { <<t>> : t \in TaskPool }
    \cup { <<a, b>> : a \in { t \in TaskPool : "complexity" \notin DOMAIN t },
                      b \in { t \in TaskPool : "complexity" \in DOMAIN t } }

NextPolicy ==
    \/ create_session("u1", Some("en"))
    \/ \E n \in RankTasksCompleted : update_session("u1", [tasks_completed |-> n])
    \/ \E stats_data \in PolicyStatsPatches : update_session_statistics("u1", stats_data)
    \/ \E u \in UserIds, available_tasks \in PolicyTaskLists :
          CallGetCompatibleTasks(u, available_tasks)
    \/ \E u \in UserIds : CallRecommendNextTaskLevel(u)

SpecPolicy == InitDefault /\ [][NextPolicy]_vars

\* C26: for every user state, get_compatible_tasks (given a list that holds
\* a task one level up in the user's language) puts a challenge in front
\* exactly when recommend_next_task_level reports is_challenge_task for that
\* state; no challenge is injected when should_advance is true.
C26_InjectionFollowsPolicy ==
    (RankedFor /\ InputChallengeCandidates # {})
    => LET evaluation == recommend_next_task_level(response.user_id)
           injected == /\ response.result # <<>>
                       /\ "is_challenge" \in DOMAIN response.result[1]
       IN  evaluation.outcome = "returned"
           => /\ injected <=> evaluation.is_challenge_task
              /\ evaluation.should_advance => ~injected

(***************************************************************************)
(* SpecResolve: a session, a profile stored under the session's own id or  *)
(* under another one, and every scoring operation asked about both ids     *)
(***************************************************************************)
NextResolve ==
    \/ create_session("u1", Some("en"))
    \/ \E n \in {0, 3} : update_session("u1", [tasks_completed |-> n])
    \/ \E p \in UserIds : create_profile(p, "u1", Some("fr"))
    \/ \E p \in UserIds :
          /\ profiles[p] # None
          /\ Val(profiles[p]).tasks_completed < MaxResolveTasks
          /\ profile_record_task_completion(p, None)
    \/ \E u \in UserIds, c \in {None, Some(1)}, l \in {Some("en"), Some("fr")} :
          CallCalculateTaskCompatibility(u, c, l, None)
    \/ \E u \in UserIds, c \in {None, Some(1)}, l \in {Some("en"), Some("fr")} :
          CallProfilerCalculateTaskCompatibility(u, c, l, None)
    \/ \E u \in UserIds, available_tasks \in {<<>>} \cup { <<t>> : t \in TaskPool } :
          CallGetCompatibleTasks(u, available_tasks)
    \/ \E u \in UserIds : CallRecommendNextTaskLevel(u)

SpecResolve == InitDefault /\ [][NextResolve]_vars

\* how the last call ended: an exception's name, or "returned"
Outcome == IF "outcome" \in DOMAIN response THEN response.outcome ELSE "returned"

\* C13: when the identifier resolves to neither a session nor a profile,
\* calculate_task_compatibility, get_compatible_tasks and
\* recommend_next_task_level fail with UserNotFound instead of returning a result.
C13_UnknownUserRaises ==
    (/\ response.op \in {"calculate_task_compatibility", "get_compatible_tasks",
                         "recommend_next_task_level"}
     /\ sessions[response.user_id] = None
     /\ profiles[response.user_id] = None)
    => Outcome = "UserNotFound"

\* the stored facts of the row that has to answer for the identifier: the
\* session's when a session has it, else the profile's
StoredFacts(user_id) ==
    IF sessions[user_id] # None
    THEN [type |-> "session",
          language |-> Val(sessions[user_id]).language,
          tasks_completed |-> Val(sessions[user_id]).tasks_completed,
          expertise_level |-> IF statistics[<<"session", user_id>>] # None
                              THEN Val(statistics[<<"session", user_id>>]).expertise_level
                              ELSE 0]
    ELSE [type |-> "profile",
          language |-> Val(profiles[user_id]).primary_language,
          tasks_completed |-> Val(profiles[user_id]).tasks_completed,
          expertise_level |-> Val(profiles[user_id]).expertise_level]

\* C14: user resolution checks sessions before profiles: for an identifier that
\* matches a session (and maybe a profile too) the language, tasks_completed,
\* expertise level and user kind used for scoring are the session's; the
\* profile's are used only when no session matches.
C14_SessionBeforeProfile ==
    ("user_id" \in DOMAIN response
       /\ (sessions[response.user_id] # None \/ profiles[response.user_id] # None)) =>
        LET facts == StoredFacts(response.user_id) IN
        /\ (response.op = "recommend_next_task_level" /\ response.outcome = "returned") =>
              /\ response.tasks_completed = facts.tasks_completed
              /\ response.current_level = facts.expertise_level
        /\ response.op = "calculate_task_compatibility" =>
              /\ response.result.factors.language
                    = (IF facts.language = response.task_language THEN 10 ELSE 2)
              /\ response.result.factors.complexity
                    = (IF response.task_complexity = None
                          \/ response.task_complexity = Some(facts.expertise_level)
                       THEN 10
                       ELSE IF Val(response.task_complexity) < facts.expertise_level
                       THEN 8
                       ELSE 6)
        /\ response.op = "profiler_calculate_task_compatibility" =>
              /\ response.result.user_type = facts.type
              /\ response.result.user_data.language = facts.language
        /\ response.op = "get_compatible_tasks" =>
              \A i \in 1..Len(Ranked) :
                  Ranked[i].compatibility_factors.language
                      = (IF facts.language = Ranked[i].language THEN 10 ELSE 2)

\* the identifier is a session's and a profile's, the two rows differ in
\* language and in tasks_completed, and the answer carries the session's count
C14_Witness ==
    /\ response.op = "recommend_next_task_level"
    /\ sessions[response.user_id] # None
    /\ profiles[response.user_id] # None
    /\ Val(profiles[response.user_id]).tasks_completed = MaxResolveTasks
    /\ Val(profiles[response.user_id]).expertise_level = 1
    /\ response.tasks_completed = 3
    /\ response.current_level = 0

(***************************************************************************)
(* SpecAreas: expertise areas created, updated and deleted                 *)
(***************************************************************************)
\* "a" and "A" are one name to the case-insensitive lookup; "a!" is another
\* name with the same generated slug
AreaNames == {<<"a">>, <<"A">>, <<"a", "!">>}

\* "" asks for a generated slug
AreaSlugs == {<<>>, <<"a">>, <<"b">>}

AreaPatches ==
    { [name |-> n] : n \in AreaNames }
    \cup { [slug |-> g] : g \in AreaSlugs \ {<<>>} }
    \cup { [parent_id |-> Some(a)] : a \in AreaIds }

NextAreas ==
    \/ \E a \in AreaIds, n \in AreaNames, g \in AreaSlugs,
          parent_id \in {None} \cup { Some(b) : b \in AreaIds } :
          create_expertise_area(a, n, Some(g), parent_id)
    \/ \E a \in AreaIds, area_data \in AreaPatches : update_expertise_area(a, area_data)
    \/ \E a \in AreaIds : delete_expertise_area(a)

SpecAreas == InitDefault /\ [][NextAreas]_vars

\* the parent of an area, if it has one
ParentOf(a) ==
    IF areas[a] # None /\ Truthy(Val(areas[a]).parent_id)
    THEN {Val(Val(areas[a]).parent_id)}
    ELSE {}

RECURSIVE AncestorsWithin(_, _)
\* the areas reached from a by at most n steps to the parent
AncestorsWithin(a, n) ==
    IF n = 0
    THEN {}
    ELSE ParentOf(a) \cup UNION { AncestorsWithin(b, n - 1) : b \in ParentOf(a) }

\* C19: after any sequence of create, update and delete operations on
\* expertise areas no area is an ancestor of itself (an update that would make
\* one its own descendant, directly or through a chain, is rejected).
C19_NoAreaIsItsOwnAncestor ==
    \A a \in AreaIds : a \notin AncestorsWithin(a, Cardinality(AreaIds))

\* the other areas that hold the slug or (case-insensitively) the name which
\* the last create or update was to store
CollidesWith ==
    { b \in AreaIds \ {response.area_id} :
        /\ areas[b] # None
        /\ \/ Val(areas[b]).slug = response.slug
           \/ Lower(Val(areas[b]).name) = Lower(response.name) }

\* C20: no two distinct expertise areas share a slug or have names equal under
\* case-insensitive comparison, and a create or update that would break this
\* is rejected with a conflict and changes nothing.
C20_SlugAndNameUnique ==
    /\ \A a, b \in AreaIds :
          (a # b /\ areas[a] # None /\ areas[b] # None) =>
              /\ Val(areas[a]).slug # Val(areas[b]).slug
              /\ Lower(Val(areas[a]).name) # Lower(Val(areas[b]).name)
    /\ (/\ response.op \in {"create_expertise_area", "update_expertise_area"}
        /\ response.outcome # "ResourceNotFound"
        /\ CollidesWith # {})
       => response.outcome = "ConflictError"

\* C21: an area that has children is not deleted (the request is rejected
\* and the area stays), so every parent_id that is set names a stored area.
C21_ParentsExist ==
    /\ \A a \in AreaIds :
          (areas[a] # None /\ Truthy(Val(areas[a]).parent_id))
          => areas[Val(Val(areas[a]).parent_id)] # None
    /\ (response.op = "delete_expertise_area" /\ response.outcome = "BadRequest")
       => /\ areas[response.area_id] # None
          /\ get_children(response.area_id) # {}

\* a delete of a parent area was rejected, its child still points to it
C21_Witness ==
    /\ response.op = "delete_expertise_area"
    /\ response.outcome = "BadRequest"
    /\ \E a \in AreaIds \ {response.area_id} :
          /\ areas[a] # None
          /\ Val(areas[a]).parent_id = Some(response.area_id)

(***************************************************************************)
(* SpecWalk: the expertise-area routes, and the two tree walks over the    *)
(* hierarchy they left                                                     *)
(***************************************************************************)
\* get_path_to_root is in its loop
Walking == response.op = "get_path_to_root" /\ response.outcome = "walking"

\* get_path_to_root lines 136-141: the area is loaded
get_path_to_root_start(area_id) ==
    /\ ~Walking
    /\ response' = IF areas[area_id] = None
                   THEN [op |-> "get_path_to_root", outcome |-> "returned",
                         result |-> <<>>, current_parent_id |-> None, steps |-> 0]
                   ELSE [op |-> "get_path_to_root", outcome |-> "walking",
                         result |-> <<area_id>>,
                         current_parent_id |-> Val(areas[area_id]).parent_id,
                         steps |-> 0]
    /\ UNCHANGED <<breaker, requests, thresholds, db>>

\* lines 144-150: once round the loop, or out of it
get_path_to_root_step ==
    /\ Walking
    /\ response.steps < MaxWalkSteps
    /\ response' =
           IF ~Truthy(response.current_parent_id)
              \/ areas[Val(response.current_parent_id)] = None
           THEN [response EXCEPT !.outcome = "returned"]
           ELSE [response EXCEPT
                   !.result = <<Val(response.current_parent_id)>> \o @,
                   !.current_parent_id =
                       Val(areas[Val(response.current_parent_id)]).parent_id,
                   !.steps = @ + 1]
    /\ UNCHANGED <<breaker, requests, thresholds, db>>

\* ExpertiseAreaRepository.get_top_level: the areas without a parent
get_top_level == { a \in AreaIds : areas[a] # None /\ Val(areas[a]).parent_id = None }

RECURSIVE _build_tree_node(_)
RECURSIVE BuildTreeNodes(_)
\* lines 47-48 and 70-71: the nodes built for a list of areas, one after another
BuildTreeNodes(ids) ==
    IF ids = {} THEN <<>>
    ELSE LET a == CHOOSE a \in ids : TRUE
         IN  _build_tree_node(a) \o BuildTreeNodes(ids \ {a})

\* _build_tree_node: the areas a node is built for, the area and then its
\* children's subtrees
_build_tree_node(area_id) == <<area_id>> \o BuildTreeNodes(get_children(area_id))

\* GET /expertise-areas/tree: the areas visited, in order
get_full_tree ==
    /\ ~Walking
    /\ response' = [op |-> "get_full_tree", outcome |-> "returned",
                    visited |-> BuildTreeNodes(get_top_level)]
    /\ UNCHANGED <<breaker, requests, thresholds, db>>

NextWalk ==
    \/ ~Walking /\ NextAreas
    \/ \E a \in AreaIds : get_path_to_root_start(a)
    \/ get_path_to_root_step
    \/ get_full_tree

SpecWalk == InitDefault /\ [][NextWalk]_vars

\* C29: on every hierarchy that create, update and delete can leave,
\* get_path_to_root goes round its loop at most as many times as there are
\* areas, and get_full_tree builds a node for each area at most once.
C29_TreeWalksTerminate ==
    /\ response.op = "get_path_to_root"
       => response.steps < Cardinality({ a \in AreaIds : areas[a] # None }) + 1
    /\ response.op = "get_full_tree"
       => \A i, j \in 1..Len(response.visited) :
             i # j => response.visited[i] # response.visited[j]

(***************************************************************************)
(* SpecTasks: task events recorded for a session and for a profile, and    *)
(* the staircase decision read after them                                  *)
(***************************************************************************)
TaskTypes == {None, Some(<<"a">>)}

NextTasks ==
    \/ create_session("u1", Some("en"))
    \/ \E task_type \in TaskTypes :
          /\ sessions["u1"] # None
          /\ Val(sessions["u1"]).tasks_completed + Val(sessions["u1"]).tasks_attempted
                 < MaxTaskEvents
          /\ session_record_task_completion("u1", task_type)
    \/ /\ sessions["u1"] # None
       /\ Val(sessions["u1"]).tasks_completed + Val(sessions["u1"]).tasks_attempted
              < MaxTaskEvents
       /\ session_record_task_attempt("u1", None)
    \/ create_profile("u2", "u1", Some("en"))
    \/ /\ profiles["u2"] # None
       /\ Val(profiles["u2"]).tasks_completed < MaxTaskEvents
       /\ profile_record_task_completion("u2", None)
    \/ \E u \in UserIds : CallRecommendNextTaskLevel(u)

SpecTasks == InitDefault /\ [][NextTasks]_vars

\* C15: after any sequence of recorded task completions, the expertise level
\* the staircase decision works with lies in 0..N and is the level derived
\* from the user's current tasks_completed, for a session and for a profile.
C15_LevelTracksTasksCompleted ==
    (/\ response.op = "recommend_next_task_level"
     /\ _get_user_data(response.user_id) # None
     /\ response.outcome = "returned")
    => /\ response.current_level \in 0..Len(thresholds)
       /\ response.current_level =
              LevelLoop(response.tasks_completed, thresholds, 1)

\* the statistics rows that exist
StoredStatistics == { Val(statistics[k]) : k \in { k \in StatKeys : statistics[k] # None } }

\* C16: from a fresh statistics row, after any sequence of update_task_metrics
\* calls, 0 <= total_tasks_completed <= total_tasks_attempted, and
\* completion_rate is completed / attempted (0 while nothing was attempted),
\* a value of [0, 1] (kept in hundredths, rounded down).
C16_CountsAndRateConsistent ==
    \A stats \in StoredStatistics :
        /\ 0 <= stats.total_tasks_completed
        /\ stats.total_tasks_completed <= stats.total_tasks_attempted
        /\ stats.completion_rate \in 0..100
        /\ stats.total_tasks_attempted = 0 => stats.completion_rate = 0
        /\ stats.total_tasks_attempted > 0 =>
              /\ stats.completion_rate * stats.total_tasks_attempted
                     <= 100 * stats.total_tasks_completed
              /\ 100 * stats.total_tasks_completed
                     < (stats.completion_rate + 1) * stats.total_tasks_attempted

\* a row updated by two completions and an attempt in between, and a row
\* updated by completions only
C16_Witness ==
    /\ response.op = "record_task_completion"
    /\ get_by_session_id("u1") # None
    /\ Val(get_by_session_id("u1")).total_tasks_completed = 2
    /\ Val(get_by_session_id("u1")).total_tasks_attempted = 3
    /\ Val(get_by_session_id("u1")).completion_rate = 66
    /\ get_by_profile_id("u2") # None
    /\ Val(get_by_profile_id("u2")).total_tasks_attempted = 2
    /\ Val(get_by_profile_id("u2")).completion_rate = 100

\* C22: for a session made by create_session, the session's tasks_completed
\* and its statistics row's total_tasks_completed are equal after every
\* event, and each task-completed event raises both by one (so both are n
\* after n events).
C22_SessionAndStatisticsCountTogether ==
    [][sessions'["u1"] # None
       => /\ get_by_session_id("u1")' # None
          /\ Val(sessions'["u1"]).tasks_completed
                 = Val(get_by_session_id("u1")').total_tasks_completed
          /\ (response'.op = "record_task_completion" /\ sessions["u1"] # None)
             => Val(sessions'["u1"]).tasks_completed
                    = Val(sessions["u1"]).tasks_completed + 1]_vars

\* three completions and two attempts later both counters are 3
C22_Witness ==
    /\ response.op = "record_task_completion"
    /\ sessions["u1"] # None
    /\ Val(sessions["u1"]).tasks_completed = 3
    /\ Val(sessions["u1"]).tasks_attempted = 2
    /\ Val(get_by_session_id("u1")).total_tasks_completed = 3

\* C23: success_rate is a fraction of [0, 1] (hundredths 0..100), and it is
\* 1.0 in a session's statistics once one or more task-completed events, all
\* reported successful, are everything that was recorded. (The handler never
\* reads the "successful" key, so every completion may have carried it.)
C23_SuccessRateTracksOutcomes ==
    /\ \A stats \in StoredStatistics : stats.success_rate \in 0..100
    /\ \A u \in UserIds :
          (/\ get_by_session_id(u) # None
           /\ Val(get_by_session_id(u)).total_tasks_completed >= 1
           /\ Val(get_by_session_id(u)).total_tasks_attempted
                  = Val(get_by_session_id(u)).total_tasks_completed)
          => Val(get_by_session_id(u)).success_rate = 100

(***************************************************************************)
(* SpecAdvance: a session all of whose recorded tasks are completions of   *)
(* quality 0.8 or more, and the staircase decision asked again and again.  *)
(* Every request that can be made is eventually made.                      *)
(***************************************************************************)
GoodQualityScores == {80, 100}

RecordGoodCompletion ==
    /\ get_by_session_id("u1") # None
    /\ Val(get_by_session_id("u1")).total_tasks_attempted < MaxTaskEvents
    /\ \E task_quality_score \in GoodQualityScores :
          session_record_scored_task_completion("u1", None, task_quality_score)

NextAdvance ==
    \/ create_session("u1", Some("en"))
    \/ RecordGoodCompletion
    \/ \E u \in UserIds : CallRecommendNextTaskLevel(u)

SpecAdvance ==
    /\ InitDefault
    /\ [][NextAdvance]_vars
    /\ WF_vars(create_session("u1", Some("en")))
    /\ WF_vars(RecordGoodCompletion)
    /\ \A u \in UserIds : WF_vars(CallRecommendNextTaskLevel(u))

\* C28: for a session whose every recorded task is a completion of quality
\* 0.8 or more, recommend_next_task_level eventually returns
\* should_advance = true.
C28_AdvancementReachable ==
    <>(/\ response.op = "recommend_next_task_level"
       /\ response.user_id = "u1"
       /\ "should_advance" \in DOMAIN response
       /\ response.should_advance)

RECURSIVE SumOfSessions(_, _)
\* sum(s.<field> for s in active_sessions)
SumOfSessions(ids, field) ==
    IF ids = {} THEN 0
    ELSE LET u == CHOOSE u \in ids : TRUE
         IN  Val(sessions[u])[field] + SumOfSessions(ids \ {u}, field)

\* get_publisher_statistics, lines 136-143: the completion rate over the
\* publisher's sessions, in hundredths
publisher_completion_rate ==
    LET active_sessions == { u \in UserIds : sessions[u] # None }
        total_tasks_completed == SumOfSessions(active_sessions, "tasks_completed")
        total_tasks_attempted == SumOfSessions(active_sessions, "tasks_attempted")
    IN  IF total_tasks_attempted > 0
        THEN (100 * total_tasks_completed) \div total_tasks_attempted
        ELSE 0

\* C30: after any sequence of task-completed and task-attempted events a
\* session's own counters satisfy tasks_completed <= tasks_attempted, and the
\* publisher summary's completion rate computed from them is at most 1.
C30_SessionCompletedWithinAttempted ==
    /\ \A u \in UserIds :
          sessions[u] # None
          => Val(sessions[u]).tasks_completed <= Val(sessions[u]).tasks_attempted
    /\ publisher_completion_rate <= 100

(***************************************************************************)
(* SpecConcurrent: POST /sessions/{session_id}/task-completed served for   *)
(* several requests at once.  Each request has its own database session    *)
(* (get_db), reads a row into it and later commits the values it computed  *)
(* from what it read; no row is locked and the UPDATE sets the column to   *)
(* the computed value.  One action per statement that reaches the database.*)
(***************************************************************************)
\* sessions.py line 158: session_repository.get
RecordTaskCompletion_GetSession(r, session_id) ==
    /\ requests[r].pc = "idle"
    /\ sessions[session_id] # None
    /\ requests' = [requests EXCEPT
                      ![r] = [pc |-> "got_session",
                              session_id |-> session_id,
                              tasks_completed |-> Val(sessions[session_id]).tasks_completed]]
    /\ UNCHANGED <<breaker, thresholds, db, response>>

\* sessions.py line 163, increment_tasks_completed: the loaded row's count
\* plus one is committed
RecordTaskCompletion_IncrementTasksCompleted(r) ==
    /\ requests[r].pc = "got_session"
    /\ sessions[requests[r].session_id] # None
    /\ sessions' = [sessions EXCEPT
                      ![requests[r].session_id] =
                          Some([Val(sessions[requests[r].session_id]) EXCEPT
                                  !.tasks_completed = requests[r].tasks_completed + 1])]
    /\ requests' = [requests EXCEPT
                      ![r] = [pc |-> "incremented", session_id |-> requests[r].session_id]]
    /\ UNCHANGED <<breaker, thresholds, profiles, statistics, areas, response>>

\* sessions.py lines 166-167: statistics_repository.get_by_session_id
RecordTaskCompletion_GetStatistics(r) ==
    /\ requests[r].pc = "incremented"
    /\ requests' = [requests EXCEPT
                      ![r] = IF get_by_session_id(requests[r].session_id) = None
                             THEN [pc |-> "done"]
                             ELSE [pc |-> "got_statistics",
                                   session_id |-> requests[r].session_id,
                                   stats |-> Val(get_by_session_id(requests[r].session_id))]]
    /\ response' = IF get_by_session_id(requests[r].session_id) = None
                   THEN Ack("record_task_completion")
                   ELSE response
    /\ UNCHANGED <<breaker, thresholds, db>>

\* sessions.py lines 168-175, update_task_metrics: the columns computed from
\* the loaded row are committed
RecordTaskCompletion_UpdateTaskMetrics(r) ==
    /\ requests[r].pc = "got_statistics"
    /\ get_by_session_id(requests[r].session_id) # None
    /\ LET computed == update_task_metrics(requests[r].stats, TRUE, None)
       IN  statistics' =
               [statistics EXCEPT
                  ![<<"session", requests[r].session_id>>] =
                      Some([Val(get_by_session_id(requests[r].session_id)) EXCEPT
                              !.total_tasks_attempted = computed.total_tasks_attempted,
                              !.total_tasks_completed = computed.total_tasks_completed,
                              !.completion_rate = computed.completion_rate])]
    /\ requests' = [requests EXCEPT ![r] = [pc |-> "done"]]
    /\ response' = Ack("record_task_completion")
    /\ UNCHANGED <<breaker, thresholds, sessions, profiles, areas>>

NextConcurrent ==
    \/ create_session("u1", Some("en"))
    \/ \E r \in RequestIds : RecordTaskCompletion_GetSession(r, "u1")
    \/ \E r \in RequestIds : RecordTaskCompletion_IncrementTasksCompleted(r)
    \/ \E r \in RequestIds : RecordTaskCompletion_GetStatistics(r)
    \/ \E r \in RequestIds : RecordTaskCompletion_UpdateTaskMetrics(r)

SpecConcurrent == InitDefault /\ [][NextConcurrent]_vars

\* the requests that were answered, and whether any is still being served
Answered == { r \in RequestIds : requests[r].pc = "done" }

Quiescent == \A r \in RequestIds : requests[r].pc \in {"idle", "done"}

\* C17: when n task-completed requests for one session interleave in any
\* order, the session's tasks_completed and the statistics row's counters
\* have each increased by exactly n once all of them are answered.
C17_NoLostUpdate ==
    (Quiescent /\ sessions["u1"] # None /\ get_by_session_id("u1") # None)
    => /\ Val(sessions["u1"]).tasks_completed = Cardinality(Answered)
       /\ Val(get_by_session_id("u1")).total_tasks_completed = Cardinality(Answered)
       /\ Val(get_by_session_id("u1")).total_tasks_attempted = Cardinality(Answered)

(***************************************************************************)
(* SpecCounter: every operation that writes a session's or a profile's     *)
(* tasks_completed                                                         *)
(***************************************************************************)
\* the counts a client sends in an update
SentCounts == 0..2

BulkUpdates ==
    UNION { [ids -> { [tasks_completed |-> t] : t \in SentCounts }] :
              ids \in SUBSET UserIds \ {{}} }

NextCounter ==
    \/ create_session("u1", Some("en"))
    \/ /\ get_by_session_id("u1") # None
       /\ Val(get_by_session_id("u1")).total_tasks_attempted < MaxTaskEvents
       /\ \/ session_record_task_completion("u1", None)
          \/ session_record_task_attempt("u1", None)
    \/ \E t \in SentCounts : update_session("u1", [tasks_completed |-> t])
    \/ \E updates \in BulkUpdates : bulk_update(updates)
    \/ create_profile("u2", "u1", Some("en"))
    \/ /\ profiles["u2"] # None
       /\ Val(profiles["u2"]).tasks_completed < MaxTaskEvents
       /\ profile_record_task_completion("u2", None)

SpecCounter == InitDefault /\ [][NextCounter]_vars

\* C18: tasks_completed of a session or profile is a non-negative integer
\* and no public operation (task-completed, task-attempted, PATCH, bulk
\* update, profile linking) leaves it lower than it was.
C18_TasksCompletedNeverDecreases ==
    [][/\ \A u \in UserIds :
             (sessions[u] # None /\ sessions'[u] # None)
             => /\ Val(sessions'[u]).tasks_completed >= 0
                /\ Val(sessions'[u]).tasks_completed >= Val(sessions[u]).tasks_completed
       /\ \A u \in UserIds :
             (profiles[u] # None /\ profiles'[u] # None)
             => /\ Val(profiles'[u]).tasks_completed >= 0
                /\ Val(profiles'[u]).tasks_completed >= Val(profiles[u]).tasks_completed]_vars

(***************************************************************************)
(* core/resilience.py: the circuit breaker                                 *)
(***************************************************************************)
\* CircuitBreaker.allow_request: what it returns at time now
allow_request(c, now) ==
    IF c.state = "CLOSED" THEN TRUE
    ELSE IF c.state = "OPEN" THEN now - c.last_failure_time >= c.recovery_timeout
    ELSE TRUE

\* CircuitBreaker.allow_request: the circuit as the call leaves it
after_allow_request(c, now) ==
    IF c.state = "OPEN" /\ now - c.last_failure_time >= c.recovery_timeout
    THEN [c EXCEPT !.state = "HALF_OPEN", !.success_count = 0]
    ELSE c

\* CircuitBreaker.on_success
on_success(c) ==
    IF c.state = "HALF_OPEN"
    THEN IF c.success_count + 1 >= c.half_open_success_threshold
         THEN [c EXCEPT !.success_count = @ + 1, !.state = "CLOSED", !.failure_count = 0]
         ELSE [c EXCEPT !.success_count = @ + 1]
    ELSE IF c.state = "CLOSED"
    THEN [c EXCEPT !.failure_count = 0]
    ELSE c

\* mutant of on_failure: the circuit opens one failure late
OnFailureOpensLate(c, now) ==
    IF c.state = "CLOSED"
    THEN IF c.failure_count + 1 > c.failure_threshold
         THEN [c EXCEPT !.failure_count = @ + 1, !.state = "OPEN", !.last_failure_time = now]
         ELSE [c EXCEPT !.failure_count = @ + 1]
    ELSE IF c.state = "HALF_OPEN"
    THEN [c EXCEPT !.state = "OPEN", !.last_failure_time = now]
    ELSE c

\* CircuitBreaker.on_failure at time now
on_failure(c, now) ==
    IF c.state = "CLOSED"
    THEN IF c.failure_count + 1 >= c.failure_threshold
         THEN [c EXCEPT !.failure_count = @ + 1, !.state = "OPEN", !.last_failure_time = now]
         ELSE [c EXCEPT !.failure_count = @ + 1]
    ELSE IF c.state = "HALF_OPEN"
    THEN [c EXCEPT !.state = "OPEN", !.last_failure_time = now]
    ELSE c

\* time passes
Tick ==
    /\ clock < MaxClock
    /\ clock' = clock + 1
    /\ circuit_call' = [circuit_call EXCEPT !.event = "tick"]
    /\ UNCHANGED <<thresholds, db, response, requests, circuit>>

\* with_circuit_breaker's wrapper up to the call of func: refused requests
\* end in the fallback or in RuntimeError
with_circuit_breaker_enter(has_fallback) ==
    /\ circuit_call.wrapped = "idle"
    /\ circuit' = after_allow_request(circuit, clock)
    /\ IF allow_request(circuit, clock)
       THEN /\ circuit_call' = [circuit_call EXCEPT !.wrapped = "running",
                                                    !.event = "wrapped_invoked"]
            /\ UNCHANGED response
       ELSE /\ circuit_call' = [circuit_call EXCEPT !.event = "wrapped_refused"]
            /\ response' = [op |-> "with_circuit_breaker",
                            outcome |-> IF has_fallback THEN "fallback" ELSE "RuntimeError"]
    /\ UNCHANGED <<thresholds, db, requests, clock>>

\* with_circuit_breaker's wrapper from the return of func
with_circuit_breaker_return(ok) ==
    /\ circuit_call.wrapped = "running"
    /\ circuit' = IF ok THEN on_success(circuit) ELSE on_failure(circuit, clock)
    /\ circuit_call' = [circuit_call EXCEPT
                          !.wrapped = "idle",
                          !.event = IF ok THEN "wrapped_success" ELSE "wrapped_failure"]
    /\ response' = [op |-> "with_circuit_breaker",
                    outcome |-> IF ok THEN "returned" ELSE "raised"]
    /\ UNCHANGED <<thresholds, db, requests, clock>>

\* resilient_http_call lines 308-323: the one check of the circuit, and the
\* first HTTP request when it passes (nothing is awaited in between)
resilient_http_call_enter(max_retries) ==
    /\ circuit_call.http = "idle"
    /\ circuit' = after_allow_request(circuit, clock)
    /\ IF allow_request(circuit, clock)
       THEN /\ circuit_call' = [circuit_call EXCEPT !.http = "awaiting",
                                                    !.retry_count = 0,
                                                    !.max_retries = max_retries,
                                                    !.event = "http_request"]
            /\ UNCHANGED response
       ELSE /\ circuit_call' = [circuit_call EXCEPT !.event = "http_refused"]
            /\ response' = [op |-> "resilient_http_call", outcome |-> "RuntimeError"]
    /\ UNCHANGED <<thresholds, db, requests, clock>>

\* lines 326-350: the response, or the exception raised in its place
resilient_http_call_response(ok) ==
    /\ circuit_call.http = "awaiting"
    /\ circuit' = IF ok THEN on_success(circuit) ELSE on_failure(circuit, clock)
    /\ circuit_call' =
           [circuit_call EXCEPT
              !.http = IF ok \/ circuit_call.retry_count = circuit_call.max_retries
                       THEN "idle"
                       ELSE "sleeping",
              !.event = IF ok THEN "http_success" ELSE "http_failure"]
    /\ response' = IF ok
                   THEN [op |-> "resilient_http_call", outcome |-> "returned"]
                   ELSE IF circuit_call.retry_count = circuit_call.max_retries
                   THEN [op |-> "resilient_http_call", outcome |-> "raised"]
                   ELSE response
    /\ UNCHANGED <<thresholds, db, requests, clock>>

\* line 350, then lines 320-323 again: the sleep is over and the next HTTP
\* request is sent
resilient_http_call_retry ==
    /\ circuit_call.http = "sleeping"
    /\ circuit_call' = [circuit_call EXCEPT !.http = "awaiting",
                                            !.retry_count = @ + 1,
                                            !.event = "http_request"]
    /\ UNCHANGED <<thresholds, db, response, requests, circuit, clock>>

(***************************************************************************)
(* SpecBreaker: one circuit, calls through both entry points, and time     *)
(***************************************************************************)
CircuitConfigs ==
    { CircuitBreaker(failure_threshold, recovery_timeout, half_open_success_threshold) :
        failure_threshold \in 1..MaxFailureThreshold,
        recovery_timeout \in 1..MaxRecoveryTimeout,
        half_open_success_threshold \in 1..MaxHalfOpenSuccessThreshold }

InitBreaker ==
    /\ thresholds = EXPERT_LEVEL_THRESHOLDS
    /\ EmptyDb
    /\ response = NoResponse
    /\ NoRequests
    /\ circuit \in CircuitConfigs
    /\ clock = 0
    /\ circuit_call = NoCall

NextBreaker ==
    \/ Tick
    \/ \E has_fallback \in BOOLEAN : with_circuit_breaker_enter(has_fallback)
    \/ \E ok \in BOOLEAN : with_circuit_breaker_return(ok)
    \/ \E max_retries \in 0..MaxRetries : resilient_http_call_enter(max_retries)
    \/ \E ok \in BOOLEAN : resilient_http_call_response(ok)
    \/ resilient_http_call_retry

SpecBreaker == InitBreaker /\ [][NextBreaker]_vars

\* the circuit is OPEN and its recovery timeout has not elapsed
Blocked ==
    /\ circuit.state = "OPEN"
    /\ clock - circuit.last_failure_time < circuit.recovery_timeout

\* C24: while the circuit is OPEN and its recovery timeout has not elapsed
\* the protected call is not invoked: a request that asks is refused
\* (with_circuit_breaker answers with the fallback or RuntimeError) and
\* resilient_http_call sends no HTTP request, its retries included.
C24_NoCallWhileOpen ==
    [][Blocked
       => /\ circuit_call'.event \notin {"wrapped_invoked", "http_request"}
          /\ circuit_call'.event = "wrapped_refused"
             => response'.outcome \in {"fallback", "RuntimeError"}]_vars

\* what the step just taken told the circuit
Asked == circuit_call'.event \in {"wrapped_invoked", "wrapped_refused",
                                  "http_refused"}
         \/ (circuit_call'.event = "http_request" /\ circuit_call.http = "idle")

Succeeded == circuit_call'.event \in {"wrapped_success", "http_success"}

Failed == circuit_call'.event \in {"wrapped_failure", "http_failure"}

\* C25: the circuit goes CLOSED -> OPEN -> HALF_OPEN -> CLOSED (or back to
\* OPEN). CLOSED: a success resets failure_count, a failure adds one and the
\* circuit opens exactly when that makes failure_threshold in a row, so
\* failure_count < failure_threshold whenever CLOSED. OPEN: the first
\* allow_request once recovery_timeout has passed makes it HALF_OPEN, nothing
\* else does. HALF_OPEN: half_open_success_threshold successes close it with
\* failure_count = 0, any failure reopens it.
C25_CircuitStateMachine ==
    [][/\ circuit'.state = "CLOSED" => circuit'.failure_count < circuit'.failure_threshold
       /\ circuit'.state # circuit.state
          => <<circuit.state, circuit'.state>> \in
                 {<<"CLOSED", "OPEN">>, <<"OPEN", "HALF_OPEN">>,
                  <<"HALF_OPEN", "CLOSED">>, <<"HALF_OPEN", "OPEN">>}
       /\ circuit.state = "CLOSED"
          => /\ Succeeded => circuit'.state = "CLOSED" /\ circuit'.failure_count = 0
             /\ Failed => /\ circuit'.failure_count = circuit.failure_count + 1
                          /\ circuit'.state = "OPEN"
                                <=> circuit.failure_count + 1 = circuit.failure_threshold
             /\ circuit'.state = "OPEN" => Failed
       /\ circuit.state = "OPEN"
          => /\ Asked => (circuit'.state = "HALF_OPEN"
                            <=> clock - circuit.last_failure_time
                                    >= circuit.recovery_timeout)
             /\ circuit'.state # "OPEN" => Asked /\ circuit'.success_count = 0
       /\ circuit.state = "HALF_OPEN"
          => /\ Succeeded
                => IF circuit.success_count + 1 >= circuit.half_open_success_threshold
                   THEN circuit'.state = "CLOSED" /\ circuit'.failure_count = 0
                   ELSE /\ circuit'.state = "HALF_OPEN"
                        /\ circuit'.success_count = circuit.success_count + 1
             /\ Failed => circuit'.state = "OPEN" /\ circuit'.last_failure_time = clock
             /\ circuit'.state # "HALF_OPEN" => Succeeded \/ Failed]_vars

\* a circuit that opened after two failures in a row, waited, was probed and
\* closed again on its second success
C25_Witness ==
    /\ circuit.failure_threshold = 2
    /\ circuit.half_open_success_threshold = 2
    /\ circuit.state = "CLOSED"
    /\ circuit.success_count = 2
    /\ circuit.failure_count = 0
    /\ circuit.last_failure_time > 0
    /\ circuit_call.event \in {"wrapped_success", "http_success"}

(***************************************************************************)
(* SpecFallback: a profile without a statistics row                        *)
(***************************************************************************)
NextFallback ==
    \/ create_user("u2")
    \/ profile_record_task_completion("u2", None)
    \/ \E u \in UserIds : CallRecommendNextTaskLevel(u)

SpecFallback == InitDefault /\ [][NextFallback]_vars

\* C9: recommend_next_task_level never raises for a user that resolves, at any
\* expertise level 0..N; without statistics it returns
\* should_advance = (tasks_completed >= thresholds[current_level]).
C9_NeverRaises ==
    (response.op = "recommend_next_task_level"
       /\ _get_user_data(response.user_id) # None)
    => /\ response.outcome = "returned"
       /\ DecidedStats = None =>
             LET level == DecidedFacts.expertise_level
             IN  /\ level \in 0..(Len(thresholds) - 1)
                 /\ response.should_advance =
                       (DecidedFacts.tasks_completed >= thresholds[level + 1])

====
